---- MODULE Spec2Model ----
(***************************************************************************)
(* The task-graph thread pool of include/nes/thread_pool.hpp:              *)
(* task_builder (build / flush), task_list (reset / next), the checkpoint, *)
(* task and fence holders, and thread_pool (worker_base, push,             *)
(* update_task_lists).                                                     *)
(*                                                                         *)
(* Granularity.  Everything done while m_mutex is held is one step; the    *)
(* atomics (checkpoint counters, fence booleans) are touched outside the   *)
(* mutex and are steps of their own.  std::condition_variable::wait(lock,  *)
(* pred) is `while(!pred()) wait(lock)`: the predicate is evaluated with   *)
(* the mutex held (WorkerPred), and only then does the thread release the  *)
(* mutex and block (Block).  A notify_one issued by a thread that does not *)
(* hold the mutex can fall between the two.                                *)
(***************************************************************************)
EXTENDS Integers, Sequences, FiniteSets, TLC

\* Bounds of the model.
MaxLen == 3          \* builder calls recorded before build()
MaxPush == 2         \* submissions of one task list (replays)
MaxExecute == 1      \* calls of thread_pool::execute
MaxPoolLen == 2      \* builder calls of the list given to the pool with an owner
MaxGrid == 3         \* small extents given to task_builder::dispatch
MaxBuilderThreads == 3   \* thread counts given to task_builder
MaxCalls == 27       \* invocations of one dispatch task the model follows
MaxBuild == 2        \* calls of build() on one task_builder
MaxExtent == 1       \* extents given to dispatch on the builder followed call by call (from 0)
MaxPlainLen == 4     \* builder calls of the list built around plain checkpoints
MaxNested == 1       \* calls of thread_pool::execute made by running callables
MaxTwoLen == 1       \* builder calls of each of the two lists pushed to one pool
MaxSignal == 1       \* calls of signal() that are between their store and their notify_one()

Min(a, b) == IF a < b THEN a ELSE b

Range(s) == {s[k] : k \in DOMAIN s}

(***************************************************************************)
(* task_builder.  An entry of m_tasks is one alternative of                *)
(* impl::task_type = variant<checkpoint, task, fence>.  `holder` is the    *)
(* identity of the heap object behind the entry's unique_ptr (the address  *)
(* the pool, the checkpoint ranges and the user handles point at).         *)
(***************************************************************************)
BuilderCalls == {"execute", "checkpoint", "barrier", "fence"}

Entry(kind, is_barrier, holder) ==
    [kind |-> kind, is_barrier |-> is_barrier, holder |-> holder,
     reset_value |-> 0, lo |-> 0, hi |-> 0, returns |-> FALSE]

push_task(m) == Append(m, Entry("task", FALSE, Len(m) + 1))

builder_execute(m) == push_task(m)

\* task_builder::invoke: the task's holder is a return_task_holder, which owns
\* the promise behind the task_result handed to the caller.
builder_invoke(m) == Append(m, [Entry("task", FALSE, Len(m) + 1) EXCEPT !.returns = TRUE])

builder_barrier(m) == Append(m, Entry("checkpoint", TRUE, Len(m) + 1))

builder_checkpoint(m) == Append(m, Entry("checkpoint", FALSE, Len(m) + 1))

builder_fence(m) == Append(m, Entry("fence", FALSE, Len(m) + 1))

builder_call(m, call) ==
    CASE call = "execute" -> builder_execute(m)
      [] call = "invoke" -> builder_invoke(m)
      [] call = "checkpoint" -> builder_checkpoint(m)
      [] call = "barrier" -> builder_barrier(m)
      [] call = "fence" -> builder_fence(m)

RECURSIVE builder_record(_, _)
builder_record(m, calls) ==
    IF calls = <<>> THEN m
    ELSE builder_record(builder_call(m, Head(calls)), Tail(calls))

\* Mutant: the caller's slot is forgotten.
flush_reset_value_no_caller(checkpoint_counter) == checkpoint_counter

\* checkpoint_holder::set_reset_value as called by flush: "+ 1 for the caller".
flush_reset_value(checkpoint_counter) == checkpoint_counter + 1

\* Mutant: a task's range holds the segment's barrier alone.
flush_range_barrier_only(e, checkpoints_begin, checkpoints_end) ==
    [e EXCEPT !.lo = checkpoints_end - 1, !.hi = checkpoints_end]

\* Mutant: the range starts at the first checkpoint of the list.
flush_range_from_first(e, checkpoints_begin, checkpoints_end) ==
    [e EXCEPT !.lo = 0, !.hi = checkpoints_end]

\* The checkpoint range flush gives a task: [checkpoints_begin, checkpoints_end)
\* as offsets into task_list::m_checkpoints.
flush_range(e, checkpoints_begin, checkpoints_end) ==
    [e EXCEPT !.lo = checkpoints_begin, !.hi = checkpoints_end]

RECURSIVE flush(_, _, _, _, _)
flush(output, checkpoints_begin, checkpoints_end, seg, checkpoint_counter) ==
    IF seg = <<>> THEN output
    ELSE LET e == Head(seg) IN
         IF e.kind = "checkpoint"
         THEN flush(Append(output,
                           [e EXCEPT !.reset_value = flush_reset_value(checkpoint_counter)]),
                    checkpoints_begin + 1, checkpoints_end, Tail(seg), checkpoint_counter)
         ELSE IF e.kind = "task"
         THEN flush(Append(output, flush_range(e, checkpoints_begin, checkpoints_end)),
                    checkpoints_begin, checkpoints_end, Tail(seg), checkpoint_counter + 1)
         ELSE flush(Append(output, e),
                    checkpoints_begin, checkpoints_end, Tail(seg), checkpoint_counter)

RECURSIVE build_loop(_, _, _, _, _, _)
build_loop(m, current, begin, checkpoints_begin, checkpoints_size, output) ==
    IF current > Len(m) THEN output
    ELSE IF m[current].kind = "checkpoint"
    THEN LET cps == Append(output.m_checkpoints, m[current].holder)
             size == checkpoints_size + 1
         IN  IF m[current].is_barrier
             THEN build_loop(m, current + 1, current + 1,
                             checkpoints_begin + size, 0,
                             [m_tasks |-> flush(output.m_tasks, checkpoints_begin,
                                                checkpoints_begin + size,
                                                SubSeq(m, begin, current), 0),
                              m_checkpoints |-> cps])
             ELSE build_loop(m, current + 1, begin, checkpoints_begin, size,
                             [output EXCEPT !.m_checkpoints = cps])
    ELSE build_loop(m, current + 1, begin, checkpoints_begin, checkpoints_size, output)

\* Mutant: build() does not add the terminal barrier.
build_no_terminal(m) ==
    build_loop(m, 1, 1, 0, 0, [m_tasks |-> <<>>, m_checkpoints |-> <<>>])

\* task_builder::build: the task_list {m_tasks, m_checkpoints} it returns.
build(m) ==
    build_loop(builder_barrier(m), 1, 1, 0, 0, [m_tasks |-> <<>>, m_checkpoints |-> <<>>])

\* The lists the model submits: every sequence of at most MaxLen builder calls.
BuilderInputs == UNION {[1..n -> BuilderCalls] : n \in 0..MaxLen}

\* The lists of the pool with an owner.
PoolInputs == UNION {[1..n -> BuilderCalls] : n \in 0..MaxPoolLen}

\* The same with tasks added by invoke.
InvokeInputs == UNION {[1..n -> BuilderCalls \cup {"invoke"}] : n \in 0..MaxLen}

(***************************************************************************)
(* The holders.                                                            *)
(***************************************************************************)
\* std::atomic<std::size_t>: a value below 0 stands for the wrapped value
\* 2^64 + c (the model never needs its magnitude, only that it is not 0 or 1).
count_down(c) == [value |-> c - 1, last |-> (c - 1 = 0)]

\* Mutant: every checkpoint is taken for a barrier.
is_barrier_always(e) == TRUE

\* checkpoint_holder_base::is_barrier.
is_barrier(e) == e.is_barrier

\* Mutant: the gate waits for the counter to reach 0.
check_barrier_zero(c) == c = 0

\* Mutant: the gate only asks that the counter has not reached 0.
check_barrier_nonzero(c) == c # 0

check_barrier(c) == c = 1

\* Mutant: the fence is read as signaled whatever its boolean.
is_signaled_always(b) == TRUE

\* Mutant: the test of the fence branch is inverted.
is_signaled_not(b) == ~b

is_signaled(b) == b

\* Mutant: signal() flips the boolean.
store_signaled_flip(b) == ~b

\* fence_holder::signal: m_signaled.store(true), whatever the boolean was.
store_signaled(b) == TRUE

\* What m_tasks.front() gives on the vector that has no element: an object of
\* the variant's type that nobody submitted and no constructor has written.
\* The ready queue whose end lies n elements before its begin (the vector
\* "holds -n elements") is written as n such elements: it reads as non-empty
\* (begin # end) and its front is one of them.
Unsubmitted == [list |-> 0, holder |-> -1]

\* The record update_task_lists finds in m_task_lists when it reads the vector
\* in the middle of the constructor's reserve: memory no push() has written.
Unregistered == 0

\* The end of the vector lies before its begin.
behind_begin(q) == q # <<>> /\ Head(q) = Unsubmitted

\* Mutant: the pop takes the last item of the queue.
front_back(q) == q[Len(q)]

\* worker_base's pop: m_tasks.front().
front(q) == Head(q)

\* Mutant: the popped item is not erased from the queue.
erase_front_none(q) == q

\* worker_base's pop: m_tasks.erase(begin).  erase moves the items behind the
\* first one place forward and then the end one place back; on the vector
\* whose end lies before its begin there is nothing to move, and the end goes
\* one place further back.
erase_front(q) == IF behind_begin(q) THEN <<Unsubmitted>> \o q ELSE Tail(q)

\* m_tasks.emplace_back (push_impl) and the push_back of std::back_inserter
\* (next): the item is constructed at the end of the vector, which then moves
\* one place on.  When the end lies before the begin the item is written
\* outside the range a pop reads: it never comes out of the queue, and the
\* vector that held -1 element reads as empty.
emplace_back(q, item) == IF behind_begin(q) THEN Tail(q) ELSE Append(q, item)

\* The items `output` of one call of next(), through std::back_inserter.
RECURSIVE back_inserter(_, _, _)
back_inserter(q, l, output) ==
    IF output = <<>> THEN q
    ELSE back_inserter(emplace_back(q, [list |-> l, holder |-> Head(output)]), l, Tail(output))

VARIABLES
    thread_count,     \* std::size(m_threads)
    list_tasks,       \* task_list::m_tasks of every list
    list_checkpoints, \* task_list::m_checkpoints of every list
    m_current,        \* task_list::m_current (a position of m_tasks; Len + 1 is end)
    m_counter,        \* checkpoint_holder::m_counter, by list and holder
    m_signaled,       \* fence_holder::m_signaled, by list and holder
    m_tasks,          \* thread_pool::m_tasks, the ready queue
    m_task_lists,     \* thread_pool::m_task_lists (the list of every record)
    m_running,        \* thread_pool::m_running
    pc,               \* where each worker thread is
    task,             \* the item a worker popped (worker_base's local `task`)
    trig,             \* trigger_checkpoints' iterator, an offset into m_checkpoints
    pushes,           \* submissions of every list so far
    emitted,          \* this submission: times each entry was put in the ready queue
    started,          \* this submission: times each entry was popped and invoked
    returned,         \* this submission: times each entry's callable returned
    fulfilled,        \* this submission: the set_value calls on each holder's promise
    completed,        \* this submission: set_value calls on the record's promise
    user,             \* where the thread that owns the pool is
    executes,         \* calls of thread_pool::execute so far
    terminated,       \* std::terminate was called: the process has ended
    dispatch,         \* a task_builder::dispatch call: its arguments, tasks and invocations
    builder,          \* a task_builder: its entry vector and what its calls returned
    callers           \* the calls of push and execute that are outside m_mutex

vars == <<thread_count, list_tasks, list_checkpoints, m_current, m_counter,
          m_signaled, m_tasks, m_task_lists, m_running, pc, task, trig, pushes,
          emitted, started, returned, fulfilled, completed,
          user, executes, terminated, dispatch, builder, callers>>

Lists == DOMAIN list_tasks

Workers == 1..thread_count

Holders(l) == 1..Len(list_tasks[l])

NoTask == [list |-> 0, holder |-> 0]

\* The entry of list l whose holder is h.
EntryOf(l, h) == CHOOSE e \in Range(list_tasks[l]) : e.holder = h

IsActive(l) == l \in Range(m_task_lists)

(***************************************************************************)
(* task_list::reset: every checkpoint's promise and counter, every fence's *)
(* boolean, and the cursor.                                                *)
(***************************************************************************)
\* Mutant: reset() leaves the counters at 0.
reset_counter_zero(tasks) == [h \in 1..Len(tasks) |-> 0]

reset_counter(tasks) ==
    [h \in 1..Len(tasks) |->
        LET e == CHOOSE x \in Range(tasks) : x.holder = h
        IN  IF e.kind = "checkpoint" THEN e.reset_value ELSE 0]

\* Mutant: reset() stores true in the fences.
reset_signaled_all(tasks) == [h \in 1..Len(tasks) |-> TRUE]

reset_signaled(tasks) == [h \in 1..Len(tasks) |-> FALSE]

\* Mutant: reset() does not rewind the cursor, left at the end by the run before.
reset_current_end(tasks) == Len(tasks) + 1

reset_current(tasks) == 1

(***************************************************************************)
(* task_list::next.  Returns (end, output) and the list's state after the  *)
(* call; `fired` lists the checkpoints whose promise the call fulfilled.   *)
(***************************************************************************)
RECURSIVE next(_, _, _, _)
next(tasks, current, counter, signaled) ==
    IF current = Len(tasks) + 1
    THEN [end |-> TRUE, output |-> <<>>, current |-> current,
          counter |-> counter, fired |-> <<>>]
    ELSE LET e == tasks[current]
             blocked == [end |-> FALSE, output |-> <<>>, current |-> current,
                         counter |-> counter, fired |-> <<>>]
         IN  IF e.kind = "checkpoint"
             THEN IF is_barrier(e) /\ ~check_barrier(counter[e.holder])
                  THEN blocked
                  ELSE LET c == count_down(counter[e.holder])
                       IN  [next(tasks, current + 1,
                                 [counter EXCEPT ![e.holder] = c.value], signaled)
                                EXCEPT !.fired = (IF c.last THEN <<e.holder>> ELSE <<>>) \o @]
             ELSE IF e.kind = "task"
             THEN [next(tasks, current + 1, counter, signaled)
                       EXCEPT !.output = <<e.holder>> \o @]
             ELSE IF ~is_signaled(signaled[e.holder])
                  THEN blocked
                  ELSE next(tasks, current + 1, counter, signaled)

(***************************************************************************)
(* thread_pool::update_task_lists on the pool state st =                   *)
(* [m_task_lists, m_tasks, m_current, m_counter] with the fence booleans   *)
(* `signaled`: the state after the call, its return value notify_count,    *)
(* the items each list has emitted, the checkpoints fired and the lists    *)
(* retired.                                                                *)
(***************************************************************************)
\* Mutant: `end &&` is dropped from the retirement test.
retire_test_count_only(end, count) == count = 0

\* The retirement test of update_task_lists.
retire_test(end, count) == end /\ count = 0

\* One iteration of update_task_lists' loop: list l, whose next() returned r.
update_list(st, l, r) ==
    [st EXCEPT
        !.m_tasks = back_inserter(@, l, r.output),
        !.output[l] = r.output,
        !.m_current[l] = r.current,
        !.m_counter[l] = r.counter,
        !.fired[l] = r.fired,
        !.need_free = IF retire_test(r.end, Len(r.output)) THEN @ \cup {l} ELSE @,
        !.notify_count = @ + Len(r.output)]

\* Mutant: the loop stops after the first record.
update_loop_first(k, st, signaled) ==
    IF k > Len(st.m_task_lists) THEN st
    ELSE LET l == st.m_task_lists[k]
         IN  CHOOSE s \in {update_list(st, l, r) :
                             r \in {next(list_tasks[l], st.m_current[l],
                                         st.m_counter[l], signaled[l])}} : TRUE

\* ({F(x) : x \in {e}} has F(e) as its one element, and evaluates e once.)
RECURSIVE update_loop(_, _, _)
update_loop(k, st, signaled) ==
    IF k > Len(st.m_task_lists) THEN st
    ELSE LET l == st.m_task_lists[k]
         IN  CHOOSE s \in
                {update_loop(k + 1, s1, signaled) :
                    s1 \in {update_list(st, l, r) :
                              r \in {next(list_tasks[l], st.m_current[l],
                                          st.m_counter[l], signaled[l])}}} : TRUE

\* Mutant: the retired records are not erased.
erase_need_free_none(st) == st

\* The erase(remove_if(need_free)) that ends update_task_lists.
erase_need_free(st) ==
    [st EXCEPT !.m_task_lists = SelectSeq(@, LAMBDA l : l \notin st.need_free)]

update_task_lists(task_lists, tasks, current, counter, signaled) ==
    CHOOSE s \in {erase_need_free(st) :
                    st \in {update_loop(1, [m_task_lists |-> task_lists, m_tasks |-> tasks,
                                            m_current |-> current, m_counter |-> counter,
                                            output |-> [l \in Lists |-> <<>>],
                                            fired |-> [l \in Lists |-> <<>>],
                                            need_free |-> {}, notify_count |-> 0],
                                        signaled)}} : TRUE

\* The state a call that does not drain leaves.
no_update == [m_task_lists |-> m_task_lists, m_tasks |-> m_tasks,
              m_current |-> m_current, m_counter |-> m_counter,
              output |-> [l \in Lists |-> <<>>],
              fired |-> [l \in Lists |-> <<>>], need_free |-> {}, notify_count |-> 0]

\* The ghost records after a drain d by the scheduler: `emitted` counts the
\* items next() has written through its output iterator.
EmittedAfter(d, old) ==
    [l \in Lists |-> [h \in Holders(l) |->
        old[l][h] + Cardinality({i \in DOMAIN d.output[l] : d.output[l][i] = h})]]

FulfilledAfter(d, old) ==
    [l \in Lists |-> [h \in Holders(l) |->
        old[l][h] \o [i \in 1..Cardinality({j \in DOMAIN d.fired[l] : d.fired[l][j] = h})
                        |-> "scheduler"]]]

CompletedAfter(d, old) ==
    [l \in Lists |-> IF l \in d.need_free THEN old[l] + 1 ELSE old[l]]

\* notify_one called n times: each call wakes one thread blocked in wait, if any.
Notified(n, S) ==
    /\ S \subseteq {w \in Workers : pc[w] = "wait"}
    /\ Cardinality(S) = Min(n, Cardinality({w \in Workers : pc[w] = "wait"}))

\* Mutant: the worker's predicate does not notify m_wait_condition.
wait_notified_never(d, u) == u

\* m_wait_condition.notify_all() of the worker's predicate: the owner of the pool
\* wakes if it is blocked in wait_idle or in the destructor.
wait_notified(d, u) ==
    IF d.m_tasks = <<>> /\ d.m_task_lists = <<>>
    THEN CASE u = "wait_idle" -> "wait_idle_woken"
           [] u = "dtor_wait" -> "dtor_woken"
           [] OTHER -> u
    ELSE u

\* m_mutex is held across steps only by a worker inside its predicate: between
\* the predicate and the wait, or in the update_task_lists it has entered on
\* the record nobody registered.
MutexFree == \A w \in Workers : pc[w] \notin {"prewait", "update"}

(***************************************************************************)
(* Init: a pool of thread_count workers and one built list.                *)
(***************************************************************************)
\* The thread counts given to the constructor of thread_pool.
PoolSizes == {1, 2}

\* The worker threads of the largest pool.
WorkerIds == UNION {1..n : n \in PoolSizes}

\* The constructor of thread_pool starts the worker threads and then calls
\* m_tasks.reserve and m_task_lists.reserve without m_mutex, while the started
\* workers read both vectors in their predicate: a data race.  Its outcomes:
\*  - a worker of `raced` has read m_tasks as non-empty in the middle of
\*    reserve and has taken its front, an element nobody submitted; the erase
\*    of each such pop has moved the end of the vector one element back, so
\*    that the vector is left with its end before its begin;
\*  - the worker of `torn` has read m_tasks as empty and m_task_lists as
\*    non-empty in the middle of its reserve, and is inside update_task_lists
\*    (m_mutex held) on a record nobody registered;
\*  - every other worker is before its predicate, as all are when no read
\*    fell in a reserve.
Constructed(ids, inputs, raced, torn) ==
    /\ thread_count \in PoolSizes
    /\ raced \subseteq 1..thread_count
    /\ torn \subseteq (1..thread_count) \ raced
    /\ Cardinality(torn) <= 1
    /\ \E f \in [ids -> inputs] :
          /\ list_tasks = [l \in ids |-> build(builder_record(<<>>, f[l])).m_tasks]
          /\ list_checkpoints = [l \in ids |-> build(builder_record(<<>>, f[l])).m_checkpoints]
    /\ m_current = [l \in ids |-> 1]
    /\ m_counter = [l \in ids |-> [h \in 1..Len(list_tasks[l]) |-> 0]]
    /\ m_signaled = [l \in ids |-> [h \in 1..Len(list_tasks[l]) |-> FALSE]]
    /\ m_tasks = [i \in 1..Cardinality(raced) |-> Unsubmitted]
    /\ m_task_lists = (IF torn = {} THEN <<>> ELSE <<Unregistered>>)
    /\ m_running = TRUE
    /\ pc = [w \in 1..thread_count |-> IF w \in raced THEN "run"
                                       ELSE IF w \in torn THEN "update" ELSE "idle"]
    /\ task = [w \in 1..thread_count |-> IF w \in raced THEN Unsubmitted ELSE NoTask]
    /\ trig = [w \in 1..thread_count |-> 0]
    /\ pushes = [l \in ids |-> 0]
    /\ emitted = [l \in ids |-> [h \in 1..Len(list_tasks[l]) |-> 0]]
    /\ started = [l \in ids |-> [h \in 1..Len(list_tasks[l]) |-> 0]]
    /\ returned = [l \in ids |-> [h \in 1..Len(list_tasks[l]) |-> 0]]
    /\ fulfilled = [l \in ids |-> [h \in 1..Len(list_tasks[l]) |-> <<>>]]
    /\ completed = [l \in ids |-> 0]
    /\ user = "ready"
    /\ executes = 0
    /\ terminated = FALSE
    /\ callers = [reset |-> {}, notify |-> [l \in ids |-> 0], execute |-> 0,
                  callable |-> {}, signal |-> 0]

\* Every outcome of the constructor's race.
InitWith(ids, inputs) ==
    \E raced \in SUBSET WorkerIds : \E torn \in SUBSET WorkerIds :
        Constructed(ids, inputs, raced, torn)

InitFor(ids) == InitWith(ids, BuilderInputs)

\* No thread_pool is constructed: the variables of the pool are those of a pool
\* that has no list and whose worker does nothing.
NoPool == Constructed({}, BuilderInputs, {}, {}) /\ thread_count = 1

\* No dispatch call is under way.
NoDispatch == [state |-> "none"]

\* No task_builder is followed.
NoBuilder == [state |-> "none"]

Init == InitFor({1}) /\ dispatch = NoDispatch /\ builder = NoBuilder

(***************************************************************************)
(* thread_pool::push, in the three parts its code has: list.reset() before *)
(* m_mutex is locked; the registration and the drain under m_mutex; the    *)
(* notify loop after lock.unlock().  `callers` holds the calls that are    *)
(* between two parts: .reset the lists whose push() has run reset() and    *)
(* waits for the mutex, .notify the notify_one() calls each push() still   *)
(* has to make, .execute the calls of execute between push_impl and their  *)
(* notify_one(), .callable the workers whose callable is there, .signal    *)
(* the calls of signal() between m_signaled.store and their notify_one().  *)
(***************************************************************************)
\* A call that goes on after ~thread_pool has returned uses m_mutex, the
\* vectors or m_worker_condition of a destroyed pool (for signal(), through the
\* pointer reset() gave the fence): a dangling reference.  The process ends
\* there, or the statement runs on the members as the destructor left them.
Dangling == terminated' \in (IF user = "destroyed" THEN {TRUE, FALSE} ELSE {terminated})

FenceHolders(l) == {h \in Holders(l) : EntryOf(l, h).kind = "fence"}

\* set_condition has run on the fences of list l: reset() calls it.
ConditionSet(l) == pushes[l] > 0 \/ l \in callers.reset

\* list.reset(m_worker_condition): the first statement of push().  The promises
\* of the checkpoints are new ones, and nothing of the submission has happened.
PushReset(l) ==
    /\ ~IsActive(l)
    /\ l \notin callers.reset
    /\ callers.notify[l] = 0
    /\ pushes[l] < MaxPush
    /\ m_current' = [m_current EXCEPT ![l] = reset_current(list_tasks[l])]
    /\ m_counter' = [m_counter EXCEPT ![l] = reset_counter(list_tasks[l])]
    /\ m_signaled' = [m_signaled EXCEPT ![l] = reset_signaled(list_tasks[l])]
    /\ emitted' = [emitted EXCEPT ![l] = [h \in Holders(l) |-> 0]]
    /\ started' = [started EXCEPT ![l] = [h \in Holders(l) |-> 0]]
    /\ returned' = [returned EXCEPT ![l] = [h \in Holders(l) |-> 0]]
    /\ fulfilled' = [fulfilled EXCEPT ![l] = [h \in Holders(l) |-> <<>>]]
    /\ completed' = [completed EXCEPT ![l] = 0]
    /\ callers' = [callers EXCEPT !.reset = @ \cup {l}]
    /\ UNCHANGED <<user, executes, terminated, dispatch, builder,
                   thread_count, list_tasks, list_checkpoints, m_tasks, m_task_lists,
                   m_running, pc, task, trig, pushes>>

\* push() from std::unique_lock lock{m_mutex} to lock.unlock(): the record is
\* appended and update_task_lists drains every registered list.
PushLocked(l) ==
    /\ l \in callers.reset
    /\ MutexFree
    /\ \E d \in {update_task_lists(Append(m_task_lists, l), m_tasks,
                                   m_current, m_counter, m_signaled)} :
          /\ m_task_lists' = d.m_task_lists
          /\ m_tasks' = d.m_tasks
          /\ m_current' = d.m_current
          /\ m_counter' = d.m_counter
          /\ pushes' = [pushes EXCEPT ![l] = @ + 1]
          /\ emitted' = EmittedAfter(d, emitted)
          /\ fulfilled' = FulfilledAfter(d, fulfilled)
          /\ completed' = CompletedAfter(d, completed)
          /\ callers' = [callers EXCEPT !.reset = @ \ {l},
                                        !.notify[l] = Min(d.notify_count, thread_count)]
    /\ Dangling
    /\ UNCHANGED <<user, executes, dispatch, builder,
                   thread_count, list_tasks, list_checkpoints, m_signaled, m_running,
                   pc, task, trig, started, returned>>

\* One iteration of the notify loop of push(): m_worker_condition.notify_one().
PushNotify(l) ==
    /\ callers.notify[l] > 0
    /\ callers' = [callers EXCEPT !.notify[l] = @ - 1]
    /\ \E S \in SUBSET Workers :
          /\ Notified(1, S)
          /\ pc' = [w \in Workers |-> IF w \in S THEN "idle" ELSE pc[w]]
    /\ Dangling
    /\ UNCHANGED <<user, executes, dispatch, builder,
                   thread_count, list_tasks, list_checkpoints, m_current, m_counter,
                   m_signaled, m_tasks, m_task_lists, m_running, task, trig, pushes,
                   emitted, started, returned, fulfilled, completed>>

\* A thread is inside push() or execute(): the owner of the pool, where it is
\* the only thread that submits.
InCall ==
    \/ callers.reset # {}
    \/ callers.execute > 0
    \/ \E l \in Lists : callers.notify[l] > 0

(***************************************************************************)
(* fence_holder::signal through the user's task_fence handle, in the two   *)
(* statements it has: m_signaled.store(true), then                         *)
(* m_condition->notify_one().                                              *)
(***************************************************************************)
SignalFence(l, h) ==
    /\ ConditionSet(l)
    /\ EntryOf(l, h).kind = "fence"
    /\ callers.signal < MaxSignal
    /\ m_signaled' = [m_signaled EXCEPT ![l][h] = store_signaled(@)]
    /\ callers' = [callers EXCEPT !.signal = @ + 1]
    /\ UNCHANGED <<executes, terminated, dispatch, builder,
                   thread_count, list_tasks, list_checkpoints, m_current, m_counter,
                   m_tasks, m_task_lists, m_running, pc, task, trig, pushes, emitted,
                   started, returned, fulfilled, completed>>

Signal(l, h) == SignalFence(l, h) /\ UNCHANGED user

\* m_condition->notify_one(), the second statement of signal().
SignalNotify ==
    /\ callers.signal > 0
    /\ callers' = [callers EXCEPT !.signal = @ - 1]
    /\ \E S \in SUBSET Workers :
          /\ Notified(1, S)
          /\ pc' = [w \in Workers |-> IF w \in S THEN "idle" ELSE pc[w]]
    /\ Dangling
    /\ UNCHANGED <<user, executes, dispatch, builder,
                   thread_count, list_tasks, list_checkpoints, m_current, m_counter,
                   m_signaled, m_tasks, m_task_lists, m_running, task, trig, pushes,
                   emitted, started, returned, fulfilled, completed>>

(***************************************************************************)
(* worker_base.                                                            *)
(***************************************************************************)
\* Lock m_mutex and evaluate the predicate of m_worker_condition.wait; when it
\* holds, go on to the break or to the pop and the unlock.
WorkerPred(w) ==
    /\ pc[w] = "idle"
    /\ MutexFree
    /\ \E d \in {IF m_tasks = <<>> /\ m_task_lists # <<>>
                 THEN update_task_lists(m_task_lists, m_tasks, m_current, m_counter, m_signaled)
                 ELSE no_update} :
       LET pred == ~m_running \/ d.m_tasks # <<>>
       IN  /\ m_task_lists' = d.m_task_lists
           /\ m_current' = d.m_current
           /\ m_counter' = d.m_counter
           /\ emitted' = EmittedAfter(d, emitted)
           /\ fulfilled' = FulfilledAfter(d, fulfilled)
           /\ completed' = CompletedAfter(d, completed)
           /\ user' = wait_notified(d, user)
           /\ \E S \in SUBSET Workers :
                 /\ Notified(Min(d.notify_count, thread_count), S)
                 /\ IF pred /\ m_running
                    THEN /\ pc' = [v \in Workers |-> IF v = w THEN "run"
                                                     ELSE IF v \in S THEN "idle" ELSE pc[v]]
                         /\ task' = [task EXCEPT ![w] = front(d.m_tasks)]
                         /\ m_tasks' = erase_front(d.m_tasks)
                         /\ started' = IF front(d.m_tasks).list = 0 THEN started
                                        ELSE [started EXCEPT
                                ![front(d.m_tasks).list][front(d.m_tasks).holder] = @ + 1]
                    ELSE /\ pc' = [v \in Workers |->
                                     IF v = w THEN (IF pred THEN "exit" ELSE "prewait")
                                     ELSE IF v \in S THEN "idle" ELSE pc[v]]
                         /\ m_tasks' = d.m_tasks
                         /\ UNCHANGED <<task, started>>
    /\ UNCHANGED <<executes, terminated, dispatch, builder, callers,
                   thread_count, list_tasks, list_checkpoints, m_signaled, m_running,
                   trig, pushes, returned>>

\* The predicate was false: wait(lock) releases the mutex and blocks.
Block(w) ==
    /\ pc[w] = "prewait"
    /\ pc' = [pc EXCEPT ![w] = "wait"]
    /\ UNCHANGED <<user, executes, terminated, dispatch, builder, callers,
                   thread_count, list_tasks, list_checkpoints, m_current, m_counter,
                   m_signaled, m_tasks, m_task_lists, m_running, task, trig, pushes,
                   emitted, started, returned, fulfilled, completed>>

\* std::condition_variable::wait may return without a notification.
SpuriousWake(w) ==
    /\ pc[w] = "wait"
    /\ pc' = [pc EXCEPT ![w] = "idle"]
    /\ UNCHANGED <<user, executes, terminated, dispatch, builder, callers,
                   thread_count, list_tasks, list_checkpoints, m_current, m_counter,
                   m_signaled, m_tasks, m_task_lists, m_running, task, trig, pushes,
                   emitted, started, returned, fulfilled, completed>>

\* task_holder::execute: m_func() returns; trigger_checkpoints starts at the
\* beginning of the task's checkpoint range.
RunTask(w) ==
    /\ pc[w] = "run"
    /\ task[w].list # 0
    /\ ~EntryOf(task[w].list, task[w].holder).returns
    /\ pc' = [pc EXCEPT ![w] = "trig"]
    /\ trig' = [trig EXCEPT ![w] = EntryOf(task[w].list, task[w].holder).lo]
    /\ returned' = [returned EXCEPT ![task[w].list][task[w].holder] = @ + 1]
    /\ UNCHANGED <<user, executes, terminated, dispatch, builder, callers,
                   thread_count, list_tasks, list_checkpoints, m_current, m_counter,
                   m_signaled, m_tasks, m_task_lists, m_running, task, pushes,
                   emitted, started, fulfilled, completed>>

\* task.execute() on the element nobody submitted: neither alternative of the
\* variant is there to be run, and the process ends (a fault in the worker, or
\* std::terminate for the exception that leaves the thread's function).
RunUnsubmitted(w) ==
    /\ pc[w] = "run"
    /\ task[w] = Unsubmitted
    /\ terminated' = TRUE
    /\ UNCHANGED <<user, executes, dispatch, builder, callers,
                   thread_count, list_tasks, list_checkpoints, m_current, m_counter,
                   m_signaled, m_tasks, m_task_lists, m_running, pc, task, trig, pushes,
                   emitted, started, returned, fulfilled, completed>>

\* update_task_lists on the record nobody registered: next() on its list
\* reports the end with no item, and list.promise.set_value throws on the
\* promise that has no shared state (std::future_error); the exception leaves
\* the thread's function and std::terminate ends the process.  The ready queue
\* is as the worker read it, empty.
UpdateUnregistered(w) ==
    /\ pc[w] = "update"
    /\ m_task_lists = <<Unregistered>>
    /\ terminated' = TRUE
    /\ UNCHANGED <<user, executes, dispatch, builder, callers,
                   thread_count, list_tasks, list_checkpoints, m_current, m_counter,
                   m_signaled, m_tasks, m_task_lists, m_running, pc, task, trig, pushes,
                   emitted, started, returned, fulfilled, completed>>

\* One iteration of trigger_checkpoints: checkpoint->count_down().
Trigger(w) ==
    /\ pc[w] = "trig"
    /\ trig[w] < EntryOf(task[w].list, task[w].holder).hi
    /\ LET l == task[w].list
           h == list_checkpoints[l][trig[w] + 1]
           c == count_down(m_counter[l][h])
       IN  /\ m_counter' = [m_counter EXCEPT ![l][h] = c.value]
           /\ fulfilled' = IF c.last
                           THEN [fulfilled EXCEPT ![l][h] = Append(@, "task")]
                           ELSE fulfilled
    /\ trig' = [trig EXCEPT ![w] = @ + 1]
    /\ UNCHANGED <<user, executes, terminated, dispatch, builder, callers,
                   thread_count, list_tasks, list_checkpoints, m_current, m_signaled,
                   m_tasks, m_task_lists, m_running, pc, task, pushes, emitted,
                   started, returned, completed>>

\* trigger_checkpoints and execute return; the worker loops to lock the mutex.
TaskReturn(w) ==
    /\ pc[w] = "trig"
    /\ trig[w] >= EntryOf(task[w].list, task[w].holder).hi
    /\ pc' = [pc EXCEPT ![w] = "idle"]
    /\ task' = [task EXCEPT ![w] = NoTask]
    /\ trig' = [trig EXCEPT ![w] = 0]
    /\ UNCHANGED <<user, executes, terminated, dispatch, builder, callers,
                   thread_count, list_tasks, list_checkpoints, m_current, m_counter,
                   m_signaled, m_tasks, m_task_lists, m_running, pushes, emitted,
                   started, returned, fulfilled, completed>>

Next ==
    \/ \E l \in Lists : ~terminated /\ PushReset(l)
    \/ \E l \in Lists : ~terminated /\ PushLocked(l)
    \/ \E l \in Lists : ~terminated /\ PushNotify(l)
    \/ \E l \in Lists : \E h \in Holders(l) : ~terminated /\ Signal(l, h)
    \/ ~terminated /\ SignalNotify
    \/ \E w \in Workers : ~terminated /\ WorkerPred(w)
    \/ \E w \in Workers : ~terminated /\ Block(w)
    \/ \E w \in Workers : ~terminated /\ SpuriousWake(w)
    \/ \E w \in Workers : ~terminated /\ RunTask(w)
    \/ \E w \in Workers : ~terminated /\ RunUnsubmitted(w)
    \/ \E w \in Workers : ~terminated /\ UpdateUnregistered(w)
    \/ \E w \in Workers : ~terminated /\ Trigger(w)
    \/ \E w \in Workers : ~terminated /\ TaskReturn(w)

Spec == Init /\ [][Next]_vars

(***************************************************************************)
(* Fairness: every worker is an OS thread that keeps taking its steps.     *)
(* Nothing obliges the user to push or signal, nor the condition variable  *)
(* to wake a thread spuriously.                                            *)
(***************************************************************************)
WorkerStep(w) ==
    /\ w \in Workers
    /\ ~terminated
    /\ \/ WorkerPred(w) \/ Block(w) \/ RunTask(w) \/ RunUnsubmitted(w)
       \/ UpdateUnregistered(w) \/ Trigger(w) \/ TaskReturn(w)

\* A thread inside push() goes on: it gets m_mutex if the mutex is free again
\* and again (strong fairness), and makes the notify_one() calls it has left;
\* a thread inside signal() makes its notify_one().
CallerStep ==
    /\ ~terminated
    /\ SignalNotify \/ \E l \in Lists : PushLocked(l) \/ PushNotify(l)

FairSpec ==
    Spec /\ (\A w \in WorkerIds : WF_vars(WorkerStep(w))) /\ SF_vars(CallerStep)

\* The same pool when every list is submitted once (no replay).
NextSingle ==
    \/ \E l \in Lists : ~terminated /\ pushes[l] = 0 /\ PushReset(l)
    \/ \E l \in Lists : ~terminated /\ PushLocked(l)
    \/ \E l \in Lists : ~terminated /\ PushNotify(l)
    \/ \E l \in Lists : \E h \in Holders(l) : ~terminated /\ Signal(l, h)
    \/ ~terminated /\ SignalNotify
    \/ \E w \in Workers : ~terminated /\ WorkerPred(w)
    \/ \E w \in Workers : ~terminated /\ Block(w)
    \/ \E w \in Workers : ~terminated /\ SpuriousWake(w)
    \/ \E w \in Workers : ~terminated /\ RunTask(w)
    \/ \E w \in Workers : ~terminated /\ RunUnsubmitted(w)
    \/ \E w \in Workers : ~terminated /\ UpdateUnregistered(w)
    \/ \E w \in Workers : ~terminated /\ Trigger(w)
    \/ \E w \in Workers : ~terminated /\ TaskReturn(w)

LiveSpec ==
    /\ Init /\ [][NextSingle]_vars
    /\ \A w \in WorkerIds : WF_vars(WorkerStep(w))
    /\ SF_vars(CallerStep)

\* The same pool when no thread signals a fence: what a list without fence sees.
NextProgress ==
    \/ \E l \in Lists : ~terminated /\ pushes[l] = 0 /\ PushReset(l)
    \/ \E l \in Lists : ~terminated /\ PushLocked(l)
    \/ \E l \in Lists : ~terminated /\ PushNotify(l)
    \/ \E w \in Workers : ~terminated /\ WorkerPred(w)
    \/ \E w \in Workers : ~terminated /\ Block(w)
    \/ \E w \in Workers : ~terminated /\ SpuriousWake(w)
    \/ \E w \in Workers : ~terminated /\ RunTask(w)
    \/ \E w \in Workers : ~terminated /\ RunUnsubmitted(w)
    \/ \E w \in Workers : ~terminated /\ UpdateUnregistered(w)
    \/ \E w \in Workers : ~terminated /\ Trigger(w)
    \/ \E w \in Workers : ~terminated /\ TaskReturn(w)

ProgressSpec ==
    /\ Init /\ [][NextProgress]_vars
    /\ \A w \in WorkerIds : WF_vars(WorkerStep(w))
    /\ SF_vars(CallerStep)

(***************************************************************************)
(* The pool of two workers given a list of tasks, plain checkpoints and    *)
(* fences in one segment (the terminal barrier closes it), submitted once. *)
(***************************************************************************)
PlainInputs == UNION {[1..n -> {"execute", "checkpoint", "fence"}] : n \in 0..MaxPlainLen}

InitPlain ==
    /\ InitWith({1}, PlainInputs)
    /\ thread_count = 2
    /\ dispatch = NoDispatch
    /\ builder = NoBuilder

PlainSpec == InitPlain /\ [][NextSingle]_vars

(***************************************************************************)
(* The pool of one or two workers given two lists, each submitted once:    *)
(* list 1 is any list of at most MaxTwoLen calls; list 2 is a list that    *)
(* stops the cursor, at its fence or at the barrier behind its task.       *)
(***************************************************************************)
TwoInputs == UNION {[1..n -> BuilderCalls] : n \in 0..MaxTwoLen}

StoppingInputs == {<<"fence">>, <<"execute">>}

TwoCounts == {1, 2}

InitTwo ==
    /\ InitWith({1, 2}, TwoInputs \cup StoppingInputs)
    /\ thread_count \in TwoCounts
    /\ \E i \in TwoInputs : list_tasks[1] = build(builder_record(<<>>, i)).m_tasks
    /\ \E i \in StoppingInputs : list_tasks[2] = build(builder_record(<<>>, i)).m_tasks
    /\ dispatch = NoDispatch
    /\ builder = NoBuilder

TwoSpec ==
    /\ InitTwo /\ [][NextSingle]_vars
    /\ \A w \in WorkerIds : WF_vars(WorkerStep(w))
    /\ SF_vars(CallerStep)

(***************************************************************************)
(* The thread that owns the pool: thread_pool::execute, wait_idle and the  *)
(* destructor.  A task given to execute is the impl::task alternative of   *)
(* the ready queue's variant; the model writes it [list |-> 0, holder |->  *)
(* n], n counting the calls.  m_wait_condition is only notified by a       *)
(* thread holding m_mutex, so the predicate of m_wait_condition.wait and   *)
(* the blocking that follows are one step.                                 *)
(***************************************************************************)
\* push_impl: the task is appended under m_mutex.
push_impl(tasks, n) == emplace_back(tasks, [list |-> 0, holder |-> n])

\* execute() up to the end of push_impl; its notify_one() is still to come.
Execute ==
    /\ user = "ready"
    /\ executes < MaxExecute
    /\ MutexFree
    /\ m_tasks' = push_impl(m_tasks, executes + 1)
    /\ executes' = executes + 1
    /\ callers' = [callers EXCEPT !.execute = @ + 1]
    /\ UNCHANGED <<user, terminated, dispatch, builder, thread_count, list_tasks,
                   list_checkpoints, m_current, m_counter, m_signaled, m_task_lists,
                   m_running, pc, task, trig, pushes, emitted, started, returned,
                   fulfilled, completed>>

\* m_worker_condition.notify_one(), the last statement of execute().
ExecuteNotify ==
    /\ callers.execute > 0
    /\ callers' = [callers EXCEPT !.execute = @ - 1]
    /\ \E S \in SUBSET Workers :
          /\ Notified(1, S)
          /\ pc' = [w \in Workers |-> IF w \in S THEN "idle" ELSE pc[w]]
    /\ Dangling
    /\ UNCHANGED <<user, executes, dispatch, builder, thread_count,
                   list_tasks, list_checkpoints, m_current, m_counter, m_signaled,
                   m_tasks, m_task_lists, m_running, task, trig, pushes, emitted,
                   started, returned, fulfilled, completed>>

\* The worker's branch for an impl::task: execute() runs the callable and
\* returns (the holder of such a task has an empty checkpoint range).
RunDirect(w) ==
    /\ pc[w] = "run"
    /\ task[w].list = 0
    /\ task[w] # Unsubmitted
    /\ w \notin callers.callable
    /\ pc' = [pc EXCEPT ![w] = "idle"]
    /\ task' = [task EXCEPT ![w] = NoTask]
    /\ UNCHANGED <<user, executes, terminated, dispatch, builder, callers, thread_count, list_tasks,
                   list_checkpoints, m_current, m_counter, m_signaled, m_tasks,
                   m_task_lists, m_running, trig, pushes, emitted, started, returned,
                   fulfilled, completed>>

\* Mutant: the predicate looks at the ready queue alone.
idle_predicate_queue_only == m_tasks = <<>>

\* The predicate wait_idle and the destructor wait for.
idle_predicate == m_tasks = <<>> /\ m_task_lists = <<>>

\* What only the owner's position changes.
OwnerStep(u) ==
    /\ user' = u
    /\ UNCHANGED <<executes, terminated, dispatch, builder, callers, thread_count, list_tasks,
                   list_checkpoints, m_current, m_counter, m_signaled, m_tasks,
                   m_task_lists, m_running, pc, task, trig, pushes, emitted, started,
                   returned, fulfilled, completed>>

\* thread_pool::wait_idle: lock m_mutex, evaluate the predicate, return or block;
\* and again after each wake-up.
WaitIdle ==
    /\ user \in {"ready", "wait_idle_woken"}
    /\ MutexFree
    /\ OwnerStep(IF idle_predicate THEN "wait_idle_returned" ELSE "wait_idle")

\* The caller of wait_idle goes on.
WaitIdleResume ==
    /\ user = "wait_idle_returned"
    /\ OwnerStep("ready")

\* std::condition_variable::wait may return without a notification.
OwnerSpuriousWake ==
    /\ user \in {"wait_idle", "dtor_wait"}
    /\ OwnerStep(IF user = "wait_idle" THEN "wait_idle_woken" ELSE "dtor_woken")

\* thread_pool::~thread_pool up to lock.unlock(): wait for the predicate, then
\* m_running = false.
DestructorWait ==
    /\ user \in {"ready", "dtor_woken"}
    /\ MutexFree
    /\ user' = IF idle_predicate THEN "dtor_notify" ELSE "dtor_wait"
    /\ m_running' = IF idle_predicate THEN FALSE ELSE m_running
    /\ UNCHANGED <<executes, terminated, dispatch, builder, callers, thread_count, list_tasks,
                   list_checkpoints, m_current, m_counter, m_signaled, m_tasks,
                   m_task_lists, pc, task, trig, pushes, emitted, started,
                   returned, fulfilled, completed>>

\* m_worker_condition.notify_all().
DestructorNotify ==
    /\ user = "dtor_notify"
    /\ user' = "dtor_join"
    /\ pc' = [w \in Workers |-> IF pc[w] = "wait" THEN "idle" ELSE pc[w]]
    /\ UNCHANGED <<executes, terminated, dispatch, builder, callers, thread_count, list_tasks,
                   list_checkpoints, m_current, m_counter, m_signaled, m_tasks,
                   m_task_lists, m_running, task, trig, pushes, emitted, started,
                   returned, fulfilled, completed>>

\* The join loop: it ends when every worker thread has left worker_base.
DestructorJoin ==
    /\ user = "dtor_join"
    /\ \A w \in Workers : pc[w] = "exit"
    /\ OwnerStep("destroyed")

\* The pool with its owner: one submission of the list, the owner's calls, and
\* signal() entered by any thread while the pool exists; a call that is under
\* way when the destructor returns goes on to its next statement (Dangling).
\* Nothing runs once the process has ended.
NextPool ==
    \/ \E l \in Lists : ~terminated /\ user = "ready" /\ ~InCall /\ pushes[l] = 0 /\ PushReset(l)
    \/ \E l \in Lists : ~terminated /\ PushLocked(l)
    \/ \E l \in Lists : ~terminated /\ PushNotify(l)
    \/ \E l \in Lists : \E h \in Holders(l) : ~terminated /\ user # "destroyed" /\ Signal(l, h)
    \/ ~terminated /\ SignalNotify
    \/ ~terminated /\ ~InCall /\ Execute
    \/ ~terminated /\ ExecuteNotify
    \/ ~terminated /\ ~InCall /\ WaitIdle
    \/ ~terminated /\ WaitIdleResume
    \/ ~terminated /\ OwnerSpuriousWake
    \/ ~terminated /\ ~InCall /\ DestructorWait
    \/ ~terminated /\ DestructorNotify
    \/ ~terminated /\ DestructorJoin
    \/ \E w \in Workers : ~terminated /\ WorkerPred(w)
    \/ \E w \in Workers : ~terminated /\ Block(w)
    \/ \E w \in Workers : ~terminated /\ SpuriousWake(w)
    \/ \E w \in Workers : ~terminated /\ RunTask(w)
    \/ \E w \in Workers : ~terminated /\ RunUnsubmitted(w)
    \/ \E w \in Workers : ~terminated /\ UpdateUnregistered(w)
    \/ \E w \in Workers : ~terminated /\ RunDirect(w)
    \/ \E w \in Workers : ~terminated /\ Trigger(w)
    \/ \E w \in Workers : ~terminated /\ TaskReturn(w)

InitPool == InitWith({1}, PoolInputs) /\ dispatch = NoDispatch /\ builder = NoBuilder

PoolSpec == InitPool /\ [][NextPool]_vars

\* Fairness: the worker threads keep running, and so does the thread inside the
\* destructor, which gets m_mutex if the mutex is free again and again (strong
\* fairness: a worker holds it from its predicate to its wait).  Nothing
\* obliges the owner to call anything.
PoolWorkerStep(w) == WorkerStep(w) \/ (w \in Workers /\ ~terminated /\ RunDirect(w))

DestructorStep ==
    /\ ~terminated
    /\ \/ user = "dtor_woken" /\ DestructorWait
       \/ DestructorNotify
       \/ DestructorJoin

\* The pool whose owner submits a list and a task at most, then destroys the
\* pool: no wait_idle, and no thread signals a fence.
NextDestroy ==
    \/ \E l \in Lists : ~terminated /\ user = "ready" /\ ~InCall /\ pushes[l] = 0 /\ PushReset(l)
    \/ \E l \in Lists : ~terminated /\ PushLocked(l)
    \/ \E l \in Lists : ~terminated /\ PushNotify(l)
    \/ ~terminated /\ ~InCall /\ executes = 0 /\ Execute
    \/ ~terminated /\ ExecuteNotify
    \/ ~terminated /\ user # "wait_idle" /\ OwnerSpuriousWake
    \/ ~terminated /\ ~InCall /\ DestructorWait
    \/ ~terminated /\ DestructorNotify
    \/ ~terminated /\ DestructorJoin
    \/ \E w \in Workers : ~terminated /\ WorkerPred(w)
    \/ \E w \in Workers : ~terminated /\ Block(w)
    \/ \E w \in Workers : ~terminated /\ SpuriousWake(w)
    \/ \E w \in Workers : ~terminated /\ RunTask(w)
    \/ \E w \in Workers : ~terminated /\ RunUnsubmitted(w)
    \/ \E w \in Workers : ~terminated /\ UpdateUnregistered(w)
    \/ \E w \in Workers : ~terminated /\ RunDirect(w)
    \/ \E w \in Workers : ~terminated /\ Trigger(w)
    \/ \E w \in Workers : ~terminated /\ TaskReturn(w)

PoolLiveSpec ==
    /\ InitPool /\ [][NextDestroy]_vars
    /\ \A w \in WorkerIds : WF_vars(PoolWorkerStep(w))
    /\ SF_vars(DestructorStep)
    /\ SF_vars(CallerStep \/ (~terminated /\ ExecuteNotify))

(***************************************************************************)
(* The pool used by several threads: one calls wait_idle, while others     *)
(* push the two lists (each once) and signal their fences.                 *)
(***************************************************************************)
NextIdle ==
    \/ \E l \in Lists : ~terminated /\ pushes[l] = 0 /\ PushReset(l)
    \/ \E l \in Lists : ~terminated /\ PushLocked(l)
    \/ \E l \in Lists : ~terminated /\ PushNotify(l)
    \/ \E l \in Lists : \E h \in Holders(l) : ~terminated /\ Signal(l, h)
    \/ ~terminated /\ SignalNotify
    \/ ~terminated /\ WaitIdle
    \/ ~terminated /\ WaitIdleResume
    \/ ~terminated /\ OwnerSpuriousWake
    \/ \E w \in Workers : ~terminated /\ WorkerPred(w)
    \/ \E w \in Workers : ~terminated /\ Block(w)
    \/ \E w \in Workers : ~terminated /\ SpuriousWake(w)
    \/ \E w \in Workers : ~terminated /\ RunTask(w)
    \/ \E w \in Workers : ~terminated /\ RunUnsubmitted(w)
    \/ \E w \in Workers : ~terminated /\ UpdateUnregistered(w)
    \/ \E w \in Workers : ~terminated /\ Trigger(w)
    \/ \E w \in Workers : ~terminated /\ TaskReturn(w)

IdleSpec ==
    /\ InitTwo /\ [][NextIdle]_vars
    /\ \A w \in WorkerIds : WF_vars(WorkerStep(w))
    /\ SF_vars(CallerStep)

(***************************************************************************)
(* The pool whose user signals fences at any time: before push(), in the   *)
(* window of push() (between its list.reset() and its lock) and after it,  *)
(* and a fence that is already signaled again.  The user's position tells  *)
(* the second signal() from the first: "signaled_again" right after a      *)
(* signal() on a signaled fence.                                           *)
(***************************************************************************)
\* signal() on a fence of a list that was never pushed: m_condition is still
\* the null pointer it was constructed with (set_condition is called by reset,
\* in push), and m_condition->notify_one() is undefined: the process ends
\* there, or the call returns as if it had notified nobody.
SignalNull(l, h) ==
    /\ ~ConditionSet(l)
    /\ EntryOf(l, h).kind = "fence"
    /\ m_signaled' = [m_signaled EXCEPT ![l][h] = store_signaled(@)]
    /\ terminated' \in {TRUE, FALSE}
    /\ UNCHANGED <<executes, dispatch, builder, callers,
                   thread_count, list_tasks, list_checkpoints, m_current, m_counter,
                   m_tasks, m_task_lists, m_running, pc, task, trig, pushes, emitted,
                   started, returned, fulfilled, completed>>

SignalEarly(l, h) == SignalNull(l, h) /\ UNCHANGED user

SignalAgain(l, h) ==
    /\ user = "ready"
    /\ m_signaled[l][h]
    /\ SignalFence(l, h)
    /\ user' = "signaled_again"

SignalResume ==
    /\ user = "signaled_again"
    /\ OwnerStep("ready")

\* Nothing runs once the process has ended.
NextFence ==
    \/ \E l \in Lists : \E h \in Holders(l) : ~terminated /\ SignalEarly(l, h)
    \/ \E l \in Lists : ~terminated /\ pushes[l] = 0 /\ PushReset(l)
    \/ \E l \in Lists : ~terminated /\ PushLocked(l)
    \/ \E l \in Lists : ~terminated /\ PushNotify(l)
    \/ \E l \in Lists : \E h \in Holders(l) : ~terminated /\ ~m_signaled[l][h] /\ Signal(l, h)
    \/ ~terminated /\ SignalNotify
    \/ \E l \in Lists : \E h \in Holders(l) : ~terminated /\ SignalAgain(l, h)
    \/ ~terminated /\ SignalResume
    \/ \E w \in Workers : ~terminated /\ WorkerPred(w)
    \/ \E w \in Workers : ~terminated /\ Block(w)
    \/ \E w \in Workers : ~terminated /\ SpuriousWake(w)
    \/ \E w \in Workers : ~terminated /\ RunTask(w)
    \/ \E w \in Workers : ~terminated /\ RunUnsubmitted(w)
    \/ \E w \in Workers : ~terminated /\ UpdateUnregistered(w)
    \/ \E w \in Workers : ~terminated /\ Trigger(w)
    \/ \E w \in Workers : ~terminated /\ TaskReturn(w)

FenceSpec == Init /\ [][NextFence]_vars

(***************************************************************************)
(* The pool whose user signals the fences of a list that is not in the     *)
(* pool: before its first push(), or between two submissions, once the     *)
(* list has come back through its completion future.  The user's position  *)
(* "signaled_before" records that such a signal() was issued.              *)
(***************************************************************************)
SignalBefore(l, h) ==
    /\ ~IsActive(l)
    /\ l \notin callers.reset
    /\ user' = "signaled_before"
    /\ IF ConditionSet(l) THEN SignalFence(l, h) ELSE SignalNull(l, h)

\* Nothing runs once the process has ended.
NextReset ==
    \/ \E l \in Lists : \E h \in Holders(l) : ~terminated /\ SignalBefore(l, h)
    \/ \E l \in Lists : ~terminated /\ PushReset(l)
    \/ \E l \in Lists : ~terminated /\ PushLocked(l)
    \/ \E l \in Lists : ~terminated /\ PushNotify(l)
    \/ \E l \in Lists : \E h \in Holders(l) :
          ~terminated /\ (IF IsActive(l) THEN TRUE ELSE l \in callers.reset) /\ Signal(l, h)
    \/ ~terminated /\ SignalNotify
    \/ \E w \in Workers : ~terminated /\ WorkerPred(w)
    \/ \E w \in Workers : ~terminated /\ Block(w)
    \/ \E w \in Workers : ~terminated /\ SpuriousWake(w)
    \/ \E w \in Workers : ~terminated /\ RunTask(w)
    \/ \E w \in Workers : ~terminated /\ RunUnsubmitted(w)
    \/ \E w \in Workers : ~terminated /\ UpdateUnregistered(w)
    \/ \E w \in Workers : ~terminated /\ Trigger(w)
    \/ \E w \in Workers : ~terminated /\ TaskReturn(w)

\* The list is one of at most MaxPoolLen builder calls, submitted up to MaxPush times.
ResetSpec == InitPool /\ [][NextReset]_vars

(***************************************************************************)
(* Submissions during shutdown.  execute, invoke and push do not read      *)
(* m_running: a thread that calls them after the destructor has set        *)
(* m_running to false, and before the destructor returns, goes through     *)
(* push_impl or through push as at any other time.  (invoke is execute     *)
(* with a promise inside the closure: the same push_impl and notify_one.)  *)
(***************************************************************************)
\* execute() by another thread, up to the end of push_impl.
LateExecute ==
    /\ ~m_running
    /\ user # "destroyed"
    /\ executes < MaxExecute
    /\ MutexFree
    /\ m_tasks' = push_impl(m_tasks, executes + 1)
    /\ executes' = executes + 1
    /\ callers' = [callers EXCEPT !.execute = @ + 1]
    /\ UNCHANGED <<user, terminated, dispatch, builder, thread_count, list_tasks,
                   list_checkpoints, m_current, m_counter, m_signaled, m_task_lists,
                   m_running, pc, task, trig, pushes, emitted, started, returned,
                   fulfilled, completed>>

\* push() by another thread: it starts with list.reset(), as at any other time.
LatePush(l) ==
    /\ ~m_running
    /\ user # "destroyed"
    /\ pushes[l] = 0
    /\ PushReset(l)

NextShutdown ==
    \/ \E l \in Lists : ~terminated /\ user = "ready" /\ ~InCall /\ pushes[l] = 0 /\ PushReset(l)
    \/ \E l \in Lists : ~terminated /\ PushLocked(l)
    \/ \E l \in Lists : ~terminated /\ PushNotify(l)
    \/ \E l \in Lists : \E h \in Holders(l) : ~terminated /\ user # "destroyed" /\ Signal(l, h)
    \/ ~terminated /\ SignalNotify
    \/ ~terminated /\ ~InCall /\ Execute
    \/ ~terminated /\ ExecuteNotify
    \/ ~terminated /\ LateExecute
    \/ \E l \in Lists : ~terminated /\ LatePush(l)
    \/ ~terminated /\ ~InCall /\ WaitIdle
    \/ ~terminated /\ WaitIdleResume
    \/ ~terminated /\ OwnerSpuriousWake
    \/ ~terminated /\ ~InCall /\ DestructorWait
    \/ ~terminated /\ DestructorNotify
    \/ ~terminated /\ DestructorJoin
    \/ \E w \in Workers : ~terminated /\ WorkerPred(w)
    \/ \E w \in Workers : ~terminated /\ Block(w)
    \/ \E w \in Workers : ~terminated /\ SpuriousWake(w)
    \/ \E w \in Workers : ~terminated /\ RunTask(w)
    \/ \E w \in Workers : ~terminated /\ RunUnsubmitted(w)
    \/ \E w \in Workers : ~terminated /\ UpdateUnregistered(w)
    \/ \E w \in Workers : ~terminated /\ RunDirect(w)
    \/ \E w \in Workers : ~terminated /\ Trigger(w)
    \/ \E w \in Workers : ~terminated /\ TaskReturn(w)

ShutdownSpec == InitPool /\ [][NextShutdown]_vars

(***************************************************************************)
(* Callables that submit.  The callable of a one-shot task runs on a       *)
(* worker, outside m_mutex, and may call execute (or invoke) on the pool   *)
(* it runs on, at any time before it returns.                              *)
(***************************************************************************)
\* The callable on worker w calls execute(): up to the end of push_impl.
CallableExecute(w) ==
    /\ pc[w] = "run"
    /\ task[w].list = 0
    /\ task[w] # Unsubmitted
    /\ w \notin callers.callable
    /\ executes < MaxExecute + MaxNested
    /\ MutexFree
    /\ m_tasks' = push_impl(m_tasks, executes + 1)
    /\ executes' = executes + 1
    /\ callers' = [callers EXCEPT !.callable = @ \cup {w}]
    /\ UNCHANGED <<user, terminated, dispatch, builder, thread_count, list_tasks,
                   list_checkpoints, m_current, m_counter, m_signaled, m_task_lists,
                   m_running, pc, task, trig, pushes, emitted, started, returned,
                   fulfilled, completed>>

\* The notify_one() of that execute(), before the callable goes on.
CallableNotify(w) ==
    /\ w \in callers.callable
    /\ callers' = [callers EXCEPT !.callable = @ \ {w}]
    /\ \E S \in SUBSET Workers :
          /\ Notified(1, S)
          /\ pc' = [v \in Workers |-> IF v \in S THEN "idle" ELSE pc[v]]
    /\ UNCHANGED <<user, executes, terminated, dispatch, builder, thread_count,
                   list_tasks, list_checkpoints, m_current, m_counter, m_signaled,
                   m_tasks, m_task_lists, m_running, task, trig, pushes, emitted,
                   started, returned, fulfilled, completed>>

NextNested ==
    \/ \E l \in Lists : ~terminated /\ user = "ready" /\ ~InCall /\ pushes[l] = 0 /\ PushReset(l)
    \/ \E l \in Lists : ~terminated /\ PushLocked(l)
    \/ \E l \in Lists : ~terminated /\ PushNotify(l)
    \/ \E l \in Lists : \E h \in Holders(l) : ~terminated /\ user # "destroyed" /\ Signal(l, h)
    \/ ~terminated /\ SignalNotify
    \/ ~terminated /\ ~InCall /\ Execute
    \/ ~terminated /\ ExecuteNotify
    \/ \E w \in Workers : ~terminated /\ CallableExecute(w)
    \/ \E w \in Workers : ~terminated /\ CallableNotify(w)
    \/ ~terminated /\ ~InCall /\ WaitIdle
    \/ ~terminated /\ WaitIdleResume
    \/ ~terminated /\ OwnerSpuriousWake
    \/ ~terminated /\ ~InCall /\ DestructorWait
    \/ ~terminated /\ DestructorNotify
    \/ ~terminated /\ DestructorJoin
    \/ \E w \in Workers : ~terminated /\ WorkerPred(w)
    \/ \E w \in Workers : ~terminated /\ Block(w)
    \/ \E w \in Workers : ~terminated /\ SpuriousWake(w)
    \/ \E w \in Workers : ~terminated /\ RunTask(w)
    \/ \E w \in Workers : ~terminated /\ RunUnsubmitted(w)
    \/ \E w \in Workers : ~terminated /\ UpdateUnregistered(w)
    \/ \E w \in Workers : ~terminated /\ RunDirect(w)
    \/ \E w \in Workers : ~terminated /\ Trigger(w)
    \/ \E w \in Workers : ~terminated /\ TaskReturn(w)

NestedSpec == InitPool /\ [][NextNested]_vars

(***************************************************************************)
(* Callables that raise.  Neither task_holder::execute nor                 *)
(* return_task_holder::execute nor worker_base has a handler: an exception *)
(* thrown by m_func() leaves execute() before trigger_checkpoints (and, in *)
(* a return_task_holder, before m_promise.set_value), leaves the thread's  *)
(* function, and std::terminate ends the process.                          *)
(***************************************************************************)
RunTaskThrow(w) ==
    /\ pc[w] = "run"
    /\ task[w].list # 0
    /\ pc' = [pc EXCEPT ![w] = "raised"]
    /\ terminated' = TRUE
    /\ UNCHANGED <<user, executes, dispatch, builder, callers, thread_count, list_tasks,
                   list_checkpoints, m_current, m_counter, m_signaled, m_tasks,
                   m_task_lists, m_running, task, trig, pushes, emitted, started,
                   returned, fulfilled, completed>>

\* return_task_holder::execute, first statement: m_func() returns its value,
\* m_promise.set_value has not been called yet.
RunInvoke(w) ==
    /\ pc[w] = "run"
    /\ task[w].list # 0
    /\ EntryOf(task[w].list, task[w].holder).returns
    /\ pc' = [pc EXCEPT ![w] = "result"]
    /\ returned' = [returned EXCEPT ![task[w].list][task[w].holder] = @ + 1]
    /\ UNCHANGED <<user, executes, terminated, dispatch, builder, callers,
                   thread_count, list_tasks, list_checkpoints, m_current, m_counter,
                   m_signaled, m_tasks, m_task_lists, m_running, task, trig, pushes,
                   emitted, started, fulfilled, completed>>

\* Mutant: the value is not stored.
set_value_none(slot) == slot

\* std::promise::set_value on the promise of a return_task_holder.
set_value(slot) == Append(slot, "result")

\* return_task_holder::execute, second statement: m_promise.set_value; the
\* third, trigger_checkpoints, starts at the beginning of the checkpoint range.
SetValue(w) ==
    /\ pc[w] = "result"
    /\ fulfilled' = [fulfilled EXCEPT ![task[w].list][task[w].holder] = set_value(@)]
    /\ pc' = [pc EXCEPT ![w] = "trig"]
    /\ trig' = [trig EXCEPT ![w] = EntryOf(task[w].list, task[w].holder).lo]
    /\ UNCHANGED <<user, executes, terminated, dispatch, builder, callers,
                   thread_count, list_tasks, list_checkpoints, m_current, m_counter,
                   m_signaled, m_tasks, m_task_lists, m_running, task, pushes,
                   emitted, started, returned, completed>>

\* What the shared state behind a task_result holds: the value once set_value
\* has been called, nothing before; no code stores an exception.
result_slot(l, h) == IF fulfilled[l][h] # <<>> THEN "value" ELSE "empty"

InitThrow == InitWith({1}, InvokeInputs) /\ dispatch = NoDispatch /\ builder = NoBuilder

\* The pool with one submission of a list whose callables may raise; nothing
\* runs once the process has ended.
NextThrow ==
    \/ \E l \in Lists : ~terminated /\ pushes[l] = 0 /\ PushReset(l)
    \/ \E l \in Lists : ~terminated /\ PushLocked(l)
    \/ \E l \in Lists : ~terminated /\ PushNotify(l)
    \/ \E l \in Lists : \E h \in Holders(l) : ~terminated /\ Signal(l, h)
    \/ ~terminated /\ SignalNotify
    \/ \E w \in Workers : ~terminated /\ WorkerPred(w)
    \/ \E w \in Workers : ~terminated /\ Block(w)
    \/ \E w \in Workers : ~terminated /\ SpuriousWake(w)
    \/ \E w \in Workers : ~terminated /\ RunTask(w)
    \/ \E w \in Workers : ~terminated /\ RunUnsubmitted(w)
    \/ \E w \in Workers : ~terminated /\ UpdateUnregistered(w)
    \/ \E w \in Workers : ~terminated /\ RunInvoke(w)
    \/ \E w \in Workers : ~terminated /\ SetValue(w)
    \/ \E w \in Workers : ~terminated /\ RunTaskThrow(w)
    \/ \E w \in Workers : ~terminated /\ Trigger(w)
    \/ \E w \in Workers : ~terminated /\ TaskReturn(w)

ThrowWorkerStep(w) ==
    /\ ~terminated
    /\ WorkerStep(w) \/ (w \in Workers /\ (RunInvoke(w) \/ SetValue(w) \/ RunTaskThrow(w)))

ThrowSpec ==
    /\ InitThrow /\ [][NextThrow]_vars
    /\ \A w \in WorkerIds : WF_vars(ThrowWorkerStep(w))
    /\ SF_vars(~terminated /\ CallerStep)

(***************************************************************************)
(* Fixed-width unsigned integers.  A std::uint32_t is a sequence of 4      *)
(* bytes and a std::uint64_t one of 8, least significant byte first, so    *)
(* that products wrap as they do in the code (the model's own integers     *)
(* stop at 2^31 - 1).  The second operand of mul_small and div_small is a  *)
(* model integer below 2^23.                                               *)
(***************************************************************************)
RECURSIVE to_bytes(_, _)
to_bytes(v, n) == IF n = 0 THEN <<>> ELSE <<v % 256>> \o to_bytes(v \div 256, n - 1)

\* Defined for the values below 2^31.
RECURSIVE to_int(_)
to_int(a) == IF a = <<>> THEN 0 ELSE Head(a) + 256 * to_int(Tail(a))

RECURSIVE mul_carry(_, _, _)
mul_carry(a, m, carry) ==
    IF a = <<>> THEN <<>>
    ELSE <<(Head(a) * m + carry) % 256>>
            \o mul_carry(Tail(a), m, (Head(a) * m + carry) \div 256)

\* a * m in the width of a: the bytes beyond the width are lost.
mul_small(a, m) == mul_carry(a, m, 0)

RECURSIVE add_carry(_, _, _)
add_carry(a, b, carry) ==
    IF a = <<>> THEN <<>>
    ELSE <<(Head(a) + Head(b) + carry) % 256>>
            \o add_carry(Tail(a), Tail(b), (Head(a) + Head(b) + carry) \div 256)

add(a, b) == add_carry(a, b, 0)

RECURSIVE less(_, _)
less(a, b) ==
    IF a = <<>> THEN FALSE
    ELSE IF Tail(a) = Tail(b) THEN Head(a) < Head(b) ELSE less(Tail(a), Tail(b))

\* Quotient (in the width of a) and remainder of a by m > 0.
RECURSIVE div_small(_, _)
div_small(a, m) ==
    IF a = <<>> THEN [q |-> <<>>, r |-> 0]
    ELSE CHOOSE d \in {[q |-> <<(hi.r * 256 + Head(a)) \div m>> \o hi.q,
                        r |-> (hi.r * 256 + Head(a)) % m] :
                            hi \in {div_small(Tail(a), m)}} : TRUE

\* static_cast<std::uint32_t> of a std::uint64_t.
low32(a) == SubSeq(a, 1, 4)

(***************************************************************************)
(* task_builder::dispatch(x, y, z, func) on a builder of m_thread_count    *)
(* threads: the closures it gives to push_task, in order.                  *)
(***************************************************************************)
\* static_cast<std::uint64_t>(x) * y * z
total_calls(x, y, z) == mul_small(mul_small(to_bytes(x, 8), y), z)

\* z_factor = (x * y): a product of two std::uint32_t.
z_factor(x, y) == mul_small(to_bytes(x, 4), y)

\* The three nested loops of the first regime, current_x fastest.
points(x, y, z) ==
    [k \in 1..(x * y * z) |->
        [kind |-> "point", current_x |-> (k - 1) % x,
         current_y |-> ((k - 1) \div x) % y, current_z |-> (k - 1) \div (x * y)]]

\* Mutant: every task gets calls_per_thread invocations, the remainder is dropped.
shard_count_floor(calls_per_thread, remainder) == calls_per_thread

\* std::uint64_t count{calls_per_thread}; if(remainder > 0) ++count;
shard_count(calls_per_thread, remainder) ==
    IF remainder > 0 THEN add(calls_per_thread, to_bytes(1, 8)) ELSE calls_per_thread

\* The while loop of the second regime.
RECURSIVE shards(_, _, _, _, _, _, _)
shards(calls, total, calls_per_thread, remainder, x, y, output) ==
    IF ~less(calls, total) THEN output
    ELSE shards(add(calls, shard_count(calls_per_thread, remainder)), total,
                calls_per_thread, IF remainder > 0 THEN remainder - 1 ELSE 0, x, y,
                Append(output, [kind |-> "range", calls |-> calls,
                                count |-> shard_count(calls_per_thread, remainder),
                                x |-> x, y |-> y, z_factor |-> z_factor(x, y)]))

dispatch_tasks(x, y, z, m_thread_count) ==
    IF less(total_calls(x, y, z), to_bytes(m_thread_count, 8))
    THEN points(x, y, z)
    ELSE shards(to_bytes(0, 8), total_calls(x, y, z),
                div_small(total_calls(x, y, z), m_thread_count).q,
                div_small(total_calls(x, y, z), m_thread_count).r, x, y, <<>>)

\* func = std::forward<Func>(func) in the capture list of the k-th closure
\* given to push_task.  An lvalue func is copied into every closure.  An
\* rvalue func is moved into the first closure, and every later closure is
\* initialised from the moved-from func: for a std::function, an empty one
\* ("rvalue" is such a callable; an rvalue whose moved-from state can still
\* be called behaves as "lvalue").
forward_func(func, k) == IF func = "rvalue" /\ k > 1 THEN "moved_from" ELSE "callable"

\* The arguments the model gives to dispatch.
GridValues == (1..MaxGrid) \cup {256 * 256}

\* func is an lvalue, or a std::function given as an rvalue.
FuncKinds == {"lvalue", "rvalue"}

BuilderThreads == 1..MaxBuilderThreads

(***************************************************************************)
(* A dispatch call and the run of its tasks.  The tasks run one after the  *)
(* other, in the order of the list (a pool of one worker); `log` is the    *)
(* sequence of the triples func was invoked with.  Of a task of more than  *)
(* MaxCalls invocations the model follows the first MaxCalls, then leaves  *)
(* it (`cut`).  std::invoke on an empty std::function throws               *)
(* std::bad_function_call, which no code catches: std::terminate ends the  *)
(* process ("raised").                                                     *)
(***************************************************************************)
PoolVars == <<thread_count, list_tasks, list_checkpoints, m_current, m_counter,
              m_signaled, m_tasks, m_task_lists, m_running, pc, task, trig, pushes,
              emitted, started, returned, fulfilled, completed, user, executes,
              builder, callers>>

InitDispatch ==
    /\ NoPool
    /\ builder = NoBuilder
    /\ \E x, y, z \in GridValues : \E n \in BuilderThreads :
       \E f \in FuncKinds :
          dispatch = [state |-> "args", x |-> x, y |-> y, z |-> z, m_thread_count |-> n,
                      func |-> f, m_tasks |-> <<>>, current |-> 1, i |-> 0, log |-> <<>>,
                      cut |-> FALSE]

\* builder.dispatch(x, y, z, func).
DispatchCall ==
    /\ dispatch.state = "args"
    /\ dispatch' = [dispatch EXCEPT
          !.state = "built",
          !.m_tasks = dispatch_tasks(dispatch.x, dispatch.y, dispatch.z,
                                     dispatch.m_thread_count)]
    /\ UNCHANGED <<PoolVars, terminated>>

DispatchRunning ==
    /\ dispatch.state = "built"
    /\ dispatch.current <= Len(dispatch.m_tasks)

\* A task of the first regime: one invocation with the captured triple.
InvokePoint ==
    /\ DispatchRunning
    /\ LET t == dispatch.m_tasks[dispatch.current]
       IN  /\ t.kind = "point"
           /\ IF forward_func(dispatch.func, dispatch.current) = "moved_from"
              THEN /\ dispatch' = [dispatch EXCEPT !.state = "raised"]
                   /\ terminated' = TRUE
              ELSE /\ dispatch' = [dispatch EXCEPT
                         !.log = Append(@, <<t.current_x, t.current_y, t.current_z>>),
                         !.current = @ + 1]
                   /\ UNCHANGED terminated
    /\ UNCHANGED PoolVars

\* The triple a task of the second regime computes for the linear index i.
coordinates(t, i, quotient_z) ==
    <<div_small(i, t.x).r,
      div_small(div_small(i, t.x).q, t.y).r,
      to_int(low32(quotient_z))>>

\* std::invoke(func, current_x, current_y, current_z) in a task of the second
\* regime, the triple c computed.
InvokeTriple(c) ==
    IF forward_func(dispatch.func, dispatch.current) = "moved_from"
    THEN /\ dispatch' = [dispatch EXCEPT !.state = "raised"]
         /\ terminated' = TRUE
    ELSE /\ dispatch' = [dispatch EXCEPT !.log = Append(@, c), !.i = @ + 1]
         /\ UNCHANGED terminated

\* One iteration of the loop of a task of the second regime.  A z_factor of
\* 0 makes i / z_factor a division by zero: the thread traps, or the
\* division yields 0, as the machine has it.
InvokeRange ==
    /\ DispatchRunning
    /\ LET t == dispatch.m_tasks[dispatch.current]
           i == add(t.calls, to_bytes(dispatch.i, 8))
       IN  /\ t.kind = "range"
           /\ dispatch.i < MaxCalls
           /\ less(to_bytes(dispatch.i, 8), t.count)
           /\ IF to_int(t.z_factor) = 0
              THEN \/ /\ dispatch' = [dispatch EXCEPT !.state = "trapped"]
                      /\ terminated' = TRUE
                   \/ InvokeTriple(coordinates(t, i, to_bytes(0, 8)))
              ELSE InvokeTriple(coordinates(t, i, div_small(i, to_int(t.z_factor)).q))
    /\ UNCHANGED PoolVars

\* The loop of the task has ended, or the model leaves it.
RangeReturn ==
    /\ DispatchRunning
    /\ LET t == dispatch.m_tasks[dispatch.current]
       IN  /\ t.kind = "range"
           /\ \/ ~less(to_bytes(dispatch.i, 8), t.count)
              \/ dispatch.i = MaxCalls
           /\ dispatch' = [dispatch EXCEPT
                 !.current = @ + 1, !.i = 0,
                 !.cut = @ \/ less(to_bytes(dispatch.i, 8), t.count)]
    /\ UNCHANGED <<PoolVars, terminated>>

NextDispatch ==
    \/ DispatchCall
    \/ InvokePoint
    \/ InvokeRange
    \/ RangeReturn

DispatchSpec == InitDispatch /\ [][NextDispatch]_vars

(***************************************************************************)
(* A task_builder followed call by call.  `m_tasks` is its entry vector,   *)
(* `builds` counts its build() calls, `last` is the last call: its name,   *)
(* its arguments, the entry vector it found (`before`) and the task list   *)
(* it returned (`output`, of a build() call), and `result` is how that     *)
(* call ended: "returned" or, when an assert failed, "aborted".  No call   *)
(* of task_builder reports an error in another way.  The holder of an      *)
(* entry is its identity within the list it is built into.                 *)
(***************************************************************************)
BuilderExtents == 0..MaxExtent

\* The grids given to dispatch on this builder: one axis varies, the two
\* others are 1 (DispatchSpec goes through the grids of several axes).
BuilderGrids ==
    {g \in BuilderExtents \X BuilderExtents \X BuilderExtents :
        Cardinality({i \in 1..3 : g[i] # 1}) <= 1}

\* The thread counts of the builder followed call by call.
BuilderCounts == {1, 2}

NoList == [m_tasks |-> <<>>, m_checkpoints |-> <<>>]

CallRecord(call, x, y, z, before, output) ==
    [call |-> call, x |-> x, y |-> y, z |-> z, before |-> before, output |-> output]

PlainCall(call, before) == CallRecord(call, 1, 1, 1, before, NoList)

\* Everything but the builder and the process.
BuilderFrame ==
    UNCHANGED <<thread_count, list_tasks, list_checkpoints, m_current, m_counter,
                m_signaled, m_tasks, m_task_lists, m_running, pc, task, trig, pushes,
                emitted, started, returned, fulfilled, completed, user, executes,
                dispatch, callers>>

InitBuilder ==
    /\ NoPool
    /\ dispatch = NoDispatch
    /\ \E n \in BuilderCounts :
          builder = [m_thread_count |-> n, m_tasks |-> <<>>, builds |-> 0,
                     last |-> PlainCall("task_builder", <<>>), result |-> "returned"]

\* execute, invoke, checkpoint, barrier and fence: one emplace_back.
BuilderAdd(call) ==
    /\ builder.result = "returned"
    /\ Len(builder.m_tasks) < MaxLen
    /\ builder' = [builder EXCEPT !.m_tasks = builder_call(@, call),
                                  !.last = PlainCall(call, builder.m_tasks)]
    /\ UNCHANGED terminated
    /\ BuilderFrame

\* push_task called once for each closure of a dispatch.
RECURSIVE push_tasks(_, _)
push_tasks(m, closures) ==
    IF closures = <<>> THEN m ELSE push_tasks(push_task(m), Tail(closures))

\* dispatch(x, y, z, func).  The three asserts are compiled in or not (NDEBUG):
\* with them a zero extent aborts the process, without them the call goes on.
BuilderDispatch(x, y, z) ==
    /\ builder.result = "returned"
    /\ (IF x * y * z = 0 THEN TRUE ELSE Len(builder.m_tasks) < MaxLen)
    /\ \E closures \in {dispatch_tasks(x, y, z, builder.m_thread_count)} :
          /\ Len(builder.m_tasks) + Len(closures) <= MaxLen
          /\ \/ /\ x = 0 \/ y = 0 \/ z = 0
                /\ builder' = [builder EXCEPT
                      !.last = CallRecord("dispatch", x, y, z, builder.m_tasks, NoList),
                      !.result = "aborted"]
                /\ terminated' = TRUE
             \/ /\ builder' = [builder EXCEPT
                      !.m_tasks = push_tasks(@, closures),
                      !.last = CallRecord("dispatch", x, y, z, builder.m_tasks, NoList)]
                /\ UNCHANGED terminated
    /\ BuilderFrame

\* build(): the list is returned and m_tasks.clear() empties the entry vector.
BuilderBuild ==
    /\ builder.result = "returned"
    /\ builder.builds < MaxBuild
    /\ builder' = [builder EXCEPT
          !.m_tasks = <<>>,
          !.builds = @ + 1,
          !.last = CallRecord("build", 1, 1, 1, builder.m_tasks, build(builder.m_tasks))]
    /\ UNCHANGED terminated
    /\ BuilderFrame

NextBuilder ==
    \/ \E call \in BuilderCalls \cup {"invoke"} : BuilderAdd(call)
    \/ \E g \in BuilderGrids : BuilderDispatch(g[1], g[2], g[3])
    \/ BuilderBuild

BuilderSpec == InitBuilder /\ [][NextBuilder]_vars

(***************************************************************************)
(* Vocabulary of the properties.                                           *)
(***************************************************************************)
ListIds == {1, 2}

Positions(l) == 1..Len(list_tasks[l])

IsTask(l, p) == list_tasks[l][p].kind = "task"

IsFence(l, p) == list_tasks[l][p].kind = "fence"

IsBarrier(l, p) == list_tasks[l][p].kind = "checkpoint" /\ list_tasks[l][p].is_barrier

IsPlain(l, p) == list_tasks[l][p].kind = "checkpoint" /\ ~list_tasks[l][p].is_barrier

HolderAt(l, p) == list_tasks[l][p].holder

\* The last push() of list l has registered it (the list is not between the
\* reset() of a push() and its registration).
Submitted(l) == pushes[l] > 0 /\ l \notin callers.reset

\* The step is the list.reset() of a push() of list l.
Resets(l) == l \in callers'.reset /\ l \notin callers.reset

MaxOf(S) == CHOOSE x \in S : \A y \in S : y <= x

\* The first position of the segment position p lies in.
SegStart(l, p) == 1 + MaxOf({0} \cup {b \in 1..(p - 1) : IsBarrier(l, b)})

\* The tasks of p's segment located before p.
SegTasksBefore(l, p) == {i \in SegStart(l, p)..(p - 1) : IsTask(l, i)}

(***************************************************************************)
(* C1.  For every pushed list and every barrier B in it (the implicit      *)
(* terminal one included), every task located before B has returned from   *)
(* its callable before a task located after B is put in the ready queue or *)
(* starts; and the cursor moves past B only from a state where B's counter *)
(* is 1 (inside push, where reset and drain are one critical section: only *)
(* when the counter reset has loaded is 1).                                *)
(***************************************************************************)
C1_Order ==
    \A l \in Lists : \A b \in Positions(l) :
        IsBarrier(l, b) =>
            \A i \in 1..(b - 1) : \A j \in (b + 1)..Len(list_tasks[l]) :
                (IsTask(l, i) /\ IsTask(l, j)
                    /\ (emitted[l][HolderAt(l, j)] > 0 \/ started[l][HolderAt(l, j)] > 0))
                => returned[l][HolderAt(l, i)] > 0

C1_Pass ==
    \A l \in Lists : \A b \in Positions(l) :
        (IsBarrier(l, b) /\ m_current'[l] > b /\ (m_current[l] <= b \/ pushes'[l] # pushes[l]))
        => /\ m_counter'[l][HolderAt(l, b)] = 0
           /\ IF pushes'[l] = pushes[l]
              THEN m_counter[l][HolderAt(l, b)] = 1
              ELSE reset_counter(list_tasks[l])[HolderAt(l, b)] = 1

(* C1: the cursor passes a barrier only when every task of the segment     *)
(* before it has returned, and no task after a barrier starts before then. *)
C1_BarrierOrdering == []C1_Order /\ [][C1_Pass]_vars

\* A task located after an explicit barrier runs, tasks located before it exist.
C1_Witness ==
    \E l \in Lists : \E b \in Positions(l) : \E i \in 1..(b - 1) :
        \E j \in (b + 1)..Len(list_tasks[l]) :
            /\ IsBarrier(l, b) /\ IsTask(l, i) /\ IsTask(l, j)
            /\ \E w \in Workers : pc[w] = "run" /\ task[w] = [list |-> l, holder |-> HolderAt(l, j)]

(***************************************************************************)
(* C2.  For every pushed list and every fence F in it: while F's boolean   *)
(* is false the cursor is not past F, and no task located after F has been *)
(* put in the ready queue or started.                                      *)
(***************************************************************************)
C2_FenceGate ==
    \A l \in Lists : \A f \in Positions(l) :
        (Submitted(l) /\ IsFence(l, f) /\ ~m_signaled[l][HolderAt(l, f)])
        => /\ m_current[l] <= f
           /\ \A j \in (f + 1)..Len(list_tasks[l]) :
                 IsTask(l, j) => /\ emitted[l][HolderAt(l, j)] = 0
                                 /\ started[l][HolderAt(l, j)] = 0
                                 /\ [list |-> l, holder |-> HolderAt(l, j)] \notin Range(m_tasks)

\* The cursor stands at an unsignaled fence with a task behind it, and in
\* another state a task behind a signaled fence runs.
C2_Witness ==
    \E l \in Lists : \E f \in Positions(l) : \E j \in (f + 1)..Len(list_tasks[l]) :
        /\ IsFence(l, f) /\ IsTask(l, j)
        /\ m_signaled[l][HolderAt(l, f)]
        /\ \E w \in Workers : pc[w] = "run" /\ task[w] = [list |-> l, holder |-> HolderAt(l, j)]

(***************************************************************************)
(* C3.  Once every fence of a pushed list has been signaled, the list is   *)
(* eventually completed, whatever the number of workers and however        *)
(* signal() interleaves with a worker evaluating its wake-up predicate,    *)
(* unless the process has ended.                                           *)
(***************************************************************************)
AllFencesSignaled(l) ==
    \A f \in Positions(l) : IsFence(l, f) => m_signaled[l][HolderAt(l, f)]

\* The same for the pools of two workers or more.  It holds (under LiveSpec and
\* under FairSpec): the lost notification needs a pool of exactly one worker.
TwoWorkersSignalLiveness ==
    \A l \in ListIds :
        (l \in Lists /\ thread_count >= 2 /\ IsActive(l) /\ AllFencesSignaled(l))
            ~> ((l \in Lists /\ ~IsActive(l)) \/ terminated)

(* C3: once every fence of a submitted list is signaled, the list is       *)
(* eventually completed, with a single worker too (no signal is lost), in  *)
(* every run in which the process goes on (a pool whose constructor raced  *)
(* ends the process, whatever is signaled).                                *)
C3_SignalLivenessUnlessEnded ==
    \A l \in ListIds :
        (l \in Lists /\ IsActive(l) /\ AllFencesSignaled(l))
            ~> ((l \in Lists /\ ~IsActive(l)) \/ terminated)

(***************************************************************************)
(* C4.  Within a submission every checkpoint's promise (plain or barrier)  *)
(* is fulfilled at most once, it is fulfilled exactly while the counter is *)
(* 0 (the decrement from 1 to 0 fulfils it), the counter stays within      *)
(* 0..reset-value, and once the list is retired every checkpoint has been  *)
(* fulfilled exactly once ("not twice"); and once every fence of the list  *)
(* is signaled, every checkpoint is eventually fulfilled, unless the       *)
(* process has ended ("not never").                                        *)
(***************************************************************************)
\* The part of C4 that holds: no checkpoint is fulfilled twice, and each is
\* fulfilled by the decrement from 1 to 0.
C4_FulfilledOnce ==
    \A l \in Lists : \A p \in Positions(l) :
        (Submitted(l) /\ list_tasks[l][p].kind = "checkpoint")
        => LET h == HolderAt(l, p)
           IN  /\ Len(fulfilled[l][h]) <= 1
               /\ (Len(fulfilled[l][h]) = 1) <=> (m_counter[l][h] = 0)
               /\ m_counter[l][h] \in 0..list_tasks[l][p].reset_value
               /\ ~IsActive(l) => Len(fulfilled[l][h]) = 1

AllFulfilled(l) ==
    \A p \in Positions(l) :
        list_tasks[l][p].kind = "checkpoint" => Len(fulfilled[l][HolderAt(l, p)]) = 1

C4_EventuallyFulfilled ==
    \A l \in ListIds :
        (l \in Lists /\ Submitted(l) /\ AllFencesSignaled(l))
            ~> ((l \in Lists /\ AllFulfilled(l)) \/ terminated)

(* C4: every checkpoint of a list submitted once is fulfilled exactly once: *)
(* never twice, and, once all the fences are signaled, not never.          *)
C4_FulfilledExactlyOnce == []C4_FulfilledOnce /\ C4_EventuallyFulfilled

\* With two workers or more every checkpoint is eventually fulfilled.
C4_TwoWorkersFulfilled ==
    \A l \in ListIds :
        (l \in Lists /\ thread_count >= 2 /\ Submitted(l) /\ AllFencesSignaled(l))
            ~> ((l \in Lists /\ AllFulfilled(l)) \/ terminated)

\* A retired list one of whose checkpoints was fulfilled by a task's decrement
\* and another by the scheduler's.
C4_Witness ==
    \E l \in Lists : \E p, q \in Positions(l) :
        /\ Submitted(l) /\ ~IsActive(l)
        /\ fulfilled[l][HolderAt(l, p)] = <<"task">>
        /\ fulfilled[l][HolderAt(l, q)] = <<"scheduler">>

(***************************************************************************)
(* C5.  Whenever a checkpoint (plain or barrier) is ready, every task      *)
(* located between the start of its segment and the checkpoint has         *)
(* returned from its callable.                                             *)
(***************************************************************************)
C5_ReadyAfterTasks ==
    \A l \in Lists : \A p \in Positions(l) :
        (list_tasks[l][p].kind = "checkpoint" /\ fulfilled[l][HolderAt(l, p)] # <<>>)
        => \A i \in SegTasksBefore(l, p) : returned[l][HolderAt(l, i)] > 0

\* A plain checkpoint with two tasks before it is ready while its list is
\* still active.
C5_Witness ==
    \E l \in Lists : \E p \in Positions(l) :
        /\ IsPlain(l, p) /\ IsActive(l)
        /\ Cardinality(SegTasksBefore(l, p)) >= 2
        /\ fulfilled[l][HolderAt(l, p)] # <<>>

(***************************************************************************)
(* C6.  A plain checkpoint is fulfilled exactly when the number of tasks   *)
(* of its segment located before it that have completed (have decremented  *)
(* it) equals its reset-value minus one, wherever the cursor stands.       *)
(* (The statement as claimed.)                                             *)
(***************************************************************************)
CpIndex(l, p) ==
    CHOOSE k \in DOMAIN list_checkpoints[l] : list_checkpoints[l][k] = HolderAt(l, p)

\* The task at position i has, in this submission, run and decremented the
\* checkpoint at position p.
TaskDecremented(l, i, p) ==
    /\ returned[l][HolderAt(l, i)] > 0
    /\ \A w \in Workers :
          (pc[w] = "trig" /\ task[w] = [list |-> l, holder |-> HolderAt(l, i)])
          => trig[w] >= CpIndex(l, p)

TasksDone(l, p) == Cardinality({i \in SegTasksBefore(l, p) : TaskDecremented(l, i, p)})

(* C6 as stated: a plain checkpoint is fulfilled exactly when the tasks of *)
(* its segment before it have all decremented it, the cursor playing no    *)
(* part.                                                                   *)
C6_FromTasksOnly ==
    \A l \in Lists : \A p \in Positions(l) :
        (Submitted(l) /\ IsPlain(l, p))
        => ((fulfilled[l][HolderAt(l, p)] # <<>>)
                <=> (TasksDone(l, p) = list_tasks[l][p].reset_value - 1))

(***************************************************************************)
(* C6, amended.  A plain checkpoint is fulfilled exactly when the tasks of *)
(* its segment located before it have all decremented it (their number is  *)
(* the reset-value minus one) and the cursor has passed the checkpoint:    *)
(* the scheduler's pass is the last of the reset-value decrements.         *)
(***************************************************************************)
C6_TasksAndCursor ==
    \A l \in Lists : \A p \in Positions(l) :
        (Submitted(l) /\ IsPlain(l, p))
        => ((fulfilled[l][HolderAt(l, p)] # <<>>)
                <=> (/\ TasksDone(l, p) = list_tasks[l][p].reset_value - 1
                     /\ m_current[l] > p))

\* Every task before a plain checkpoint has decremented it, and it is not
\* ready: the cursor waits before it.
C6_Witness ==
    \E l \in Lists : \E p \in Positions(l) :
        /\ Submitted(l) /\ IsPlain(l, p)
        /\ SegTasksBefore(l, p) # {}
        /\ TasksDone(l, p) = list_tasks[l][p].reset_value - 1
        /\ m_current[l] <= p
        /\ fulfilled[l][HolderAt(l, p)] = <<>>

(***************************************************************************)
(* C7.  The completion promise of a submission is fulfilled at most once;  *)
(* it is unfulfilled exactly while the list's record is registered, and a  *)
(* list is registered at most once: the drain that fulfils the promise     *)
(* removes the record.                                                     *)
(***************************************************************************)
C7_CompletionOnce ==
    \A l \in Lists :
        /\ completed[l] <= 1
        /\ IsActive(l) => completed[l] = 0
        /\ (Submitted(l) /\ ~IsActive(l)) => completed[l] = 1
        /\ Cardinality({k \in DOMAIN m_task_lists : m_task_lists[k] = l}) <= 1

\* The second submission of a list with a task has completed.
C7_Witness ==
    \E l \in Lists : \E p \in Positions(l) :
        /\ pushes[l] = 2 /\ ~IsActive(l) /\ completed[l] = 1
        /\ IsTask(l, p) /\ returned[l][HolderAt(l, p)] = 1

(***************************************************************************)
(* C8.  A list's completion future is fulfilled only after every task of   *)
(* the list has been put in the ready queue, started and returned.         *)
(***************************************************************************)
C8_CompletionAfterTasks ==
    \A l \in Lists : \A p \in Positions(l) :
        (completed[l] > 0 /\ IsTask(l, p))
        => /\ emitted[l][HolderAt(l, p)] > 0
           /\ started[l][HolderAt(l, p)] > 0
           /\ returned[l][HolderAt(l, p)] > 0

\* A list whose last entry before the terminal barrier is a task has completed.
C8_Witness ==
    \E l \in Lists :
        /\ completed[l] = 1
        /\ Len(list_tasks[l]) >= 3
        /\ IsTask(l, Len(list_tasks[l]) - 1)
        /\ IsTask(l, 1)

(***************************************************************************)
(* C9.  Within a submission every task is emitted by next() at most once,  *)
(* popped at most once and run by one worker at a time; an emitted task is *)
(* never more often in the queue and with the workers than it was emitted, *)
(* and it is in the queue or with a worker (nothing is lost) in every pool *)
(* but the one where a worker has taken an element nobody submitted, whose *)
(* queue had its end before its begin; when the list completes every task  *)
(* has been queued, started and returned exactly once.                     *)
(***************************************************************************)
\* A worker has taken, through the constructor's race, an element of the ready
\* queue nobody had submitted.
TookUnsubmitted == \E w \in Workers : task[w] = Unsubmitted

C9_Lost ==
    \E l \in Lists : \E p \in Positions(l) :
        /\ IsTask(l, p) /\ emitted[l][HolderAt(l, p)] = 1 /\ started[l][HolderAt(l, p)] = 0
        /\ [list |-> l, holder |-> HolderAt(l, p)] \notin Range(m_tasks)

NoFence(l) == \A p \in Positions(l) : ~IsFence(l, p)

(* C10: under fair scheduling of the workers a submitted list without      *)
(* fences is eventually completed and retired, unless the process has      *)
(* ended (which in this pool only the constructor's race brings about).    *)
C10_ProgressUnlessEnded ==
    \A l \in ListIds :
        (l \in Lists /\ IsActive(l) /\ NoFence(l))
            ~> ((l \in Lists /\ ~IsActive(l)) \/ terminated)

\* A list without a fence, with tasks on both sides of an explicit barrier,
\* has completed.
C10_Witness ==
    \E l \in Lists : \E b \in 2..(Len(list_tasks[l]) - 2) :
        /\ NoFence(l) /\ IsBarrier(l, b)
        /\ IsTask(l, b - 1) /\ IsTask(l, b + 1)
        /\ completed[l] = 1 /\ ~IsActive(l)

(***************************************************************************)
(* C11.  In the state wait_idle() returns in, the ready queue and the      *)
(* registry of active lists are both empty.                                *)
(***************************************************************************)
C11_IdleAtReturn ==
    user = "wait_idle_returned" => (m_tasks = <<>> /\ m_task_lists = <<>>)

\* wait_idle returned after a list holding a task and a task given to execute
\* were submitted.
C11_Witness ==
    /\ user = "wait_idle_returned"
    /\ executes = 1
    /\ \E l \in Lists : \E p \in Positions(l) :
          pushes[l] = 1 /\ IsTask(l, p) /\ returned[l][HolderAt(l, p)] = 1

(***************************************************************************)
(* C12.  In the state wait_idle() returns in, no worker is running a       *)
(* callable: every task submitted before the call, through execute or      *)
(* through push, has finished.                                             *)
(***************************************************************************)
(* C12: when wait_idle() returns no worker is running the callable of a     *)
(* task that was submitted.                                                *)
C12_NoCallableRunning ==
    user = "wait_idle_returned"
    => \A w \in Workers : ~(pc[w] = "run" /\ task[w] # Unsubmitted)

\* The part of C12 that holds: no callable of a task list is running.
ListCallablesDoneAtReturn ==
    user = "wait_idle_returned" => \A w \in Workers : pc[w] = "run" => task[w].list = 0

(***************************************************************************)
(* C13.  For every dispatch(x, y, z, func) with x, y, z >= 1 and every     *)
(* builder thread count: the run of the tasks it appended does not fail,   *)
(* invokes func only with triples of the grid, with no triple twice, and   *)
(* when every task has run func has been invoked x * y * z times.          *)
(***************************************************************************)
InGrid(c) ==
    /\ c[1] \in 0..(dispatch.x - 1)
    /\ c[2] \in 0..(dispatch.y - 1)
    /\ c[3] \in 0..(dispatch.z - 1)

DispatchFinished ==
    /\ dispatch.state = "built"
    /\ dispatch.current > Len(dispatch.m_tasks)
    /\ ~dispatch.cut

ExactlyOnce ==
    /\ \A k \in DOMAIN dispatch.log : InGrid(dispatch.log[k])
    /\ \A j, k \in DOMAIN dispatch.log : dispatch.log[j] = dispatch.log[k] => j = k
    /\ DispatchFinished => Len(dispatch.log) = dispatch.x * dispatch.y * dispatch.z

(* C13: the tasks of a dispatch invoke func exactly once for each triple   *)
(* of the grid, whatever the extents and the thread count.                 *)
C13_DispatchExactlyOnce ==
    dispatch.state # "args" => (dispatch.state \notin {"trapped", "raised"} /\ ExactlyOnce)

\* x * y as a product of 64 bits.
z_factor_wide(x, y) == mul_small(to_bytes(x, 8), y)

\* The part of C13 that holds: the dispatches whose x * y fits 32 bits, given
\* a func that every closure can copy.
DispatchExactlyOnceIn32Bits ==
    (dispatch.state # "args"
        /\ dispatch.func = "lvalue"
        /\ z_factor_wide(dispatch.x, dispatch.y) = z_factor(dispatch.x, dispatch.y)
                                                      \o <<0, 0, 0, 0>>)
    => (dispatch.state \notin {"trapped", "raised"} /\ ExactlyOnce)

(***************************************************************************)
(* C14.  With N = x * y * z and T the builder's thread count: when N < T   *)
(* the dispatch appends N tasks, one for each point of the grid; otherwise *)
(* it appends T tasks whose ranges of linear indices follow one another    *)
(* from 0 to N, the first N mod T of floor(N / T) + 1 indices and the      *)
(* others of floor(N / T).                                                 *)
(***************************************************************************)
PointsRegime ==
    LET t == dispatch.m_tasks
    IN  /\ Len(t) = dispatch.x * dispatch.y * dispatch.z
        /\ \A k \in DOMAIN t : t[k].kind = "point"
        /\ \A a \in 0..(dispatch.x - 1) : \A b \in 0..(dispatch.y - 1) :
              \A c \in 0..(dispatch.z - 1) :
                 Cardinality({k \in DOMAIN t :
                                <<t[k].current_x, t[k].current_y, t[k].current_z>>
                                    = <<a, b, c>>}) = 1

ShardsRegime ==
    LET t == dispatch.m_tasks
        N == total_calls(dispatch.x, dispatch.y, dispatch.z)
        T == dispatch.m_thread_count
        floor == div_small(N, T).q
        rest == div_small(N, T).r
    IN  /\ Len(t) = T
        /\ \A k \in DOMAIN t : t[k].kind = "range"
        /\ t[1].calls = to_bytes(0, 8)
        /\ \A k \in 1..(T - 1) : t[k + 1].calls = add(t[k].calls, t[k].count)
        /\ add(t[T].calls, t[T].count) = N
        /\ \A k \in 1..T :
              t[k].count = IF k <= rest THEN add(floor, to_bytes(1, 8)) ELSE floor

(* C14: N < T gives one task for each grid point; otherwise T contiguous   *)
(* ascending shards covering [0, N), the first N mod T one index longer.   *)
C14_DispatchPartition ==
    dispatch.state = "built"
    => IF less(total_calls(dispatch.x, dispatch.y, dispatch.z),
               to_bytes(dispatch.m_thread_count, 8))
       THEN PointsRegime
       ELSE ShardsRegime

\* Three tasks of unequal sizes were appended and have all run.
C14_Witness ==
    /\ DispatchFinished
    /\ Len(dispatch.m_tasks) = 3
    /\ dispatch.m_tasks[1].kind = "range"
    /\ dispatch.m_tasks[1].count # dispatch.m_tasks[3].count
    /\ dispatch.x > 1 /\ dispatch.y > 1 /\ dispatch.z > 1

\* Two tasks of the first regime were appended.
PointsWitness ==
    /\ dispatch.state = "built"
    /\ Len(dispatch.m_tasks) = 2
    /\ dispatch.m_tasks[2].kind = "point"

(***************************************************************************)
(* C15.  A list without a task and without a fence (plain checkpoints and  *)
(* barriers only) completes inside push(): in every state after push() has *)
(* returned the list is not registered, its completion promise has been    *)
(* fulfilled and so has the promise of each of its checkpoints, by the     *)
(* scheduler.                                                              *)
(***************************************************************************)
OnlyCheckpoints(l) == \A p \in Positions(l) : list_tasks[l][p].kind = "checkpoint"

(* C15: a list of checkpoints and barriers only is complete, with every    *)
(* checkpoint ready, when push() returns.                                   *)
C15_EmptyListCompletesInPush ==
    \A l \in Lists :
        (Submitted(l) /\ OnlyCheckpoints(l))
        => /\ ~IsActive(l)
           /\ completed[l] = 1
           /\ m_current[l] = Len(list_tasks[l]) + 1
           /\ \A p \in Positions(l) : fulfilled[l][HolderAt(l, p)] = <<"scheduler">>

\* A list made of a plain checkpoint, a barrier and the terminal barrier has
\* been pushed twice.
C15_Witness ==
    \E l \in Lists :
        /\ pushes[l] = 2 /\ OnlyCheckpoints(l)
        /\ Len(list_tasks[l]) = 3
        /\ IsPlain(l, 1) /\ IsBarrier(l, 2)
        /\ completed[l] = 1

(***************************************************************************)
(* C16.  The ready queue is FIFO.  A step in which a worker pops takes the *)
(* item at the front of the queue (of the queue as the drain of the same   *)
(* critical section left it, when the worker found the queue empty) and,   *)
(* when that item is one that was appended, leaves the rest in order;      *)
(* every other step keeps the queue as a prefix of the new queue: items    *)
(* are appended at the back.  So of two items of the queue the one         *)
(* appended first is popped first.  (The queue the constructor's race left *)
(* with its end before its begin holds no appended item.)                  *)
(***************************************************************************)
Pops(w) == pc[w] = "idle" /\ pc'[w] = "run"

QueueAtPop ==
    IF m_tasks # <<>> THEN m_tasks
    ELSE update_task_lists(m_task_lists, m_tasks, m_current, m_counter, m_signaled).m_tasks

C16_SubmittedStep ==
    IF \E w \in Workers : Pops(w)
    THEN \A w \in Workers :
            Pops(w) => /\ QueueAtPop # <<>>
                       /\ task'[w] = Head(QueueAtPop)
                       /\ task'[w] # Unsubmitted => m_tasks' = Tail(QueueAtPop)
    ELSE ~behind_begin(m_tasks)
         => /\ Len(m_tasks') >= Len(m_tasks)
            /\ SubSeq(m_tasks', 1, Len(m_tasks)) = m_tasks

InDestructor == user \in {"dtor_wait", "dtor_woken", "dtor_notify", "dtor_join"}

C17_Drained == ~m_running => (m_tasks = <<>> /\ m_task_lists = <<>>)

C17_Joined == user = "destroyed" => \A w \in Workers : pc[w] = "exit"

(* C17: destruction waits for the queue and the registry to be empty       *)
(* before m_running = false, then every worker exits and is joined: the    *)
(* destructor returns, unless the process has ended (which in this pool    *)
(* only the constructor's race brings about).                              *)
C17_DrainsUnlessEnded ==
    /\ [](C17_Drained /\ C17_Joined)
    /\ (InDestructor /\ \A l \in Lists : NoFence(l)) ~> (user = "destroyed" \/ terminated)

\* The destructor blocked while a list with a task was active, and has returned
\* after that list and a task given to execute both ran.
C17_Witness ==
    /\ user = "destroyed"
    /\ executes = 1
    /\ \A w \in Workers : pc[w] = "exit"
    /\ \E l \in Lists : \E p \in Positions(l) :
          NoFence(l) /\ IsTask(l, p) /\ returned[l][HolderAt(l, p)] = 1 /\ completed[l] = 1

(***************************************************************************)
(* C18.  A destructor entered while a submission is outstanding (a list    *)
(* whose cursor stands at an unsignaled fence) ends in the fatal outcome:  *)
(* the process is terminated; the destructor does not stay blocked and     *)
(* does not return.                                                        *)
(***************************************************************************)
BlockedAtFence(l) ==
    /\ IsActive(l)
    /\ m_current[l] \in Positions(l)
    /\ IsFence(l, m_current[l])
    /\ ~m_signaled[l][HolderAt(l, m_current[l])]

(* C18: a destructor entered with a list stopped at an unsignaled fence     *)
(* leads to the termination of the process.                                *)
C18_DestroyedWhileActive ==
    (InDestructor /\ \E l \in Lists : BlockedAtFence(l)) ~> terminated

\* What the destructor does instead: it is blocked on m_wait_condition for as
\* long as the list is registered.
DestructorWaitsForFence ==
    (user \in {"dtor_notify", "dtor_join", "destroyed"}) => m_task_lists = <<>>

(***************************************************************************)
(* C19.  When the callable of a task added by task_builder::invoke raises, *)
(* the error is stored in the task's result slot (get() rethrows it) and   *)
(* does not reach the worker thread: the process goes on.                  *)
(***************************************************************************)
Raised(l, p) ==
    \E w \in Workers : pc[w] = "raised" /\ task[w] = [list |-> l, holder |-> HolderAt(l, p)]

(* C19: an error raised by the callable of an invoke task is in the result  *)
(* slot and the process has not been terminated.                           *)
C19_ErrorCaptured ==
    \A l \in Lists : \A p \in Positions(l) :
        (IsTask(l, p) /\ list_tasks[l][p].returns /\ Raised(l, p))
        => (result_slot(l, HolderAt(l, p)) = "error" /\ ~terminated)

\* What the code does instead: a callable that raised has ended the process
\* and left the result slot empty.
RaiseTerminates ==
    \A l \in Lists : \A p \in Positions(l) :
        Raised(l, p) => (terminated /\ result_slot(l, HolderAt(l, p)) = "empty")

(***************************************************************************)
(* C20.  When the callable of a list task raises, the task still           *)
(* decrements the checkpoints of its range: a list without fence one of    *)
(* whose callables raised is still eventually completed.                   *)
(***************************************************************************)
C20_RaiseKeepsProgress ==
    \A l \in ListIds :
        (l \in Lists /\ NoFence(l) /\ \E p \in Positions(l) : Raised(l, p))
            ~> (l \in Lists /\ completed[l] = 1)

\* What the code does instead: the task that raised decrements nothing.
RaiseSkipsTrigger ==
    \A l \in Lists : \A p \in Positions(l) :
        Raised(l, p) =>
            \A k \in (list_tasks[l][p].lo + 1)..list_tasks[l][p].hi :
                m_counter[l][list_checkpoints[l][k]] >= 1

(***************************************************************************)
(* C21.  build() is single-shot: a second build() call on a task_builder   *)
(* is rejected with the BuilderExhausted error and returns no task list.   *)
(***************************************************************************)
C21_BuildSingleShot ==
    (builder.last.call = "build" /\ builder.builds >= 2)
    => (builder.result = "BuilderExhausted" /\ builder.last.output = NoList)

\* What the code does instead: every build() call returns normally the list of
\* the entries recorded since the previous one, closed by a terminal barrier.
EveryBuildReturnsAList ==
    builder.last.call = "build"
    => /\ builder.result = "returned"
       /\ Len(builder.last.output.m_tasks) = Len(builder.last.before) + 1

(***************************************************************************)
(* C22.  dispatch(x, y, z, f) with an extent equal to 0 is rejected with   *)
(* InvalidArgument and appends no entry to the builder.                    *)
(***************************************************************************)
ZeroExtent ==
    /\ builder.last.call = "dispatch"
    /\ builder.last.x = 0 \/ builder.last.y = 0 \/ builder.last.z = 0

(* C22: a dispatch call with a zero extent ends in an error and appends     *)
(* nothing to the builder.                                                 *)
C22_ZeroExtentRejected ==
    ZeroExtent => (builder.result = "InvalidArgument" /\ builder.m_tasks = builder.last.before)

\* What the code does instead: the call appends nothing, and either returns
\* normally (NDEBUG) or aborts the process (a failed assert).
ZeroExtentAppendsNothing ==
    ZeroExtent => /\ builder.m_tasks = builder.last.before
                  /\ builder.result \in {"returned", "aborted"}
                  /\ (builder.result = "aborted") <=> terminated

(***************************************************************************)
(* C23.  Once the pool is shutting down (m_running is false) no call of    *)
(* push, execute or invoke is accepted: every one fails at once with       *)
(* SubmissionClosed, so that no step changes the ready queue, the registry *)
(* of active lists or the number of submissions taken.                     *)
(***************************************************************************)
C23_Step ==
    ~m_running => /\ m_tasks' = m_tasks
                  /\ m_task_lists' = m_task_lists
                  /\ executes' = executes
                  /\ pushes' = pushes

(* C23: once m_running is false no step adds a task or a list to the pool. *)
C23_SubmissionClosed == [][C23_Step]_vars

\* The last part of C23, "no call leaves the queue state inconsistent": a
\* destroyed pool holds no task and no list.  The code breaks it as well: the
\* late submission is taken and the workers leave without running it.
QueueEmptyAtExit ==
    user = "destroyed" => (m_tasks = <<>> /\ m_task_lists = <<>>)

(***************************************************************************)
(* C24.  Pre-signaled fences are transparent.  A fence of a submission     *)
(* signaled before the cursor reaches it (in the window of push(), between *)
(* its reset() and its drain, or while the cursor waits further up) does   *)
(* not stop a drain, and the list behaves as the list built from           *)
(* the same calls without that fence: build() gives the other entries the  *)
(* same reset-values and checkpoint ranges, every drain emits the same     *)
(* tasks, fulfils the same checkpoints and stops at the same entry, the    *)
(* orderings of barriers and checkpoints hold, and the completed list has  *)
(* run every task and fulfilled every checkpoint once.                     *)
(***************************************************************************)
\* The fences at or after the cursor that are signaled already.
PreSignaled(l) ==
    {p \in Positions(l) : p >= m_current[l] /\ IsFence(l, p) /\ m_signaled[l][HolderAt(l, p)]}

\* The entries of list l but those at the positions F.
Without(l, F) ==
    SelectSeq(list_tasks[l], LAMBDA e : e.holder \notin {HolderAt(l, p) : p \in F})

CallOf(e) ==
    CASE e.kind = "fence" -> "fence"
      [] e.kind = "task" -> (IF e.returns THEN "invoke" ELSE "execute")
      [] OTHER -> (IF e.is_barrier THEN "barrier" ELSE "checkpoint")

\* What build() decides of an entry.
Plan(e) == [kind |-> e.kind, is_barrier |-> e.is_barrier, reset_value |-> e.reset_value,
            lo |-> e.lo, hi |-> e.hi, returns |-> e.returns]

\* The list built from the calls of `tasks` (its terminal barrier is build()'s).
Rebuilt(tasks) ==
    build(builder_record(<<>>, [i \in 1..(Len(tasks) - 1) |-> CallOf(tasks[i])])).m_tasks

SameBuild(l) ==
    LET kept == Without(l, PreSignaled(l))
    IN  [i \in DOMAIN kept |-> Plan(kept[i])]
            = [i \in DOMAIN Rebuilt(kept) |-> Plan(Rebuilt(kept)[i])]

SameDrain(l) ==
    LET F == PreSignaled(l)
        with == next(list_tasks[l], m_current[l], m_counter[l], m_signaled[l])
        without == next(Without(l, F), m_current[l], m_counter[l], m_signaled[l])
    IN  /\ with.end = without.end
        /\ with.output = without.output
        /\ with.fired = without.fired
        /\ with.counter = without.counter
        /\ without.current = with.current - Cardinality({p \in F : p < with.current})

FinalOutputs(l) ==
    completed[l] = 1
    => \A p \in Positions(l) :
          /\ IsTask(l, p) => returned[l][HolderAt(l, p)] = 1
          /\ list_tasks[l][p].kind = "checkpoint" => Len(fulfilled[l][HolderAt(l, p)]) = 1

C24_Transparent ==
    /\ \A l \in Lists : Submitted(l) => (SameBuild(l) /\ SameDrain(l) /\ FinalOutputs(l))
    /\ C1_Order
    /\ C5_ReadyAfterTasks

\* A drain ran on list l in this step: push(), or a worker that found the ready
\* queue empty.
DrainRan(l) ==
    \/ pushes'[l] # pushes[l]
    \/ /\ m_tasks = <<>>
       /\ IsActive(l)
       /\ \E w \in Workers : pc[w] = "idle" /\ pc'[w] # "idle"

C24_NoStop ==
    \A l \in Lists :
        (DrainRan(l) /\ m_current'[l] \in Positions(l) /\ IsFence(l, m_current'[l]))
        => ~m_signaled'[l][HolderAt(l, m_current'[l])]

(* C24: a fence signaled before the cursor reaches it (after the reset of   *)
(* push(), which gives the submission its unsignaled fences) never stops a *)
(* drain, and the list drains, orders and ends as the list built without   *)
(* it.                                                                     *)
SignaledAfterResetTransparent == []C24_Transparent /\ [][C24_NoStop]_vars

\* The drain of push() went over a fence signaled in the window of push(): a
\* task located after the fence is queued while a task located before it has
\* not been popped yet.
PreSignaledInWindow ==
    \E l \in Lists : \E f \in Positions(l) : \E i \in 1..(f - 1) :
        \E j \in (f + 1)..Len(list_tasks[l]) :
            /\ IsFence(l, f) /\ IsTask(l, i) /\ IsTask(l, j)
            /\ m_current[l] > f
            /\ emitted[l][HolderAt(l, i)] = 1 /\ started[l][HolderAt(l, i)] = 0
            /\ emitted[l][HolderAt(l, j)] = 1

\* The cursor waits at a barrier while a fence further down is signaled.
PreSignaledBehindBarrier ==
    \E l \in Lists : \E b, f \in Positions(l) :
        /\ b < f /\ IsBarrier(l, b) /\ IsFence(l, f)
        /\ IsActive(l) /\ m_current[l] = b
        /\ m_signaled[l][HolderAt(l, f)]

(***************************************************************************)
(* C25.  signal() is idempotent within a submission.  A signal() on a      *)
(* fence that is signaled already leaves every fence boolean as it was     *)
(* (true for that fence) and changes neither a cursor, nor a counter, nor  *)
(* the ready queue, nor what was emitted, started or returned; and with    *)
(* such calls too no task is emitted, started or run twice and a completed *)
(* list has run every task once.                                           *)
(***************************************************************************)
SecondSignal == user = "ready" /\ user' = "signaled_again"

C25_Step ==
    SecondSignal
    => /\ m_signaled' = m_signaled
       /\ \E l \in Lists : \E h \in Holders(l) : m_signaled'[l][h]
       /\ m_current' = m_current
       /\ m_counter' = m_counter
       /\ m_tasks' = m_tasks
       /\ m_task_lists' = m_task_lists
       /\ emitted' = emitted /\ started' = started /\ returned' = returned
       /\ fulfilled' = fulfilled /\ completed' = completed

C25_Counts ==
    \A l \in Lists : \A p \in Positions(l) :
        IsTask(l, p)
        => /\ emitted[l][HolderAt(l, p)] <= 1
           /\ started[l][HolderAt(l, p)] <= emitted[l][HolderAt(l, p)]
           /\ returned[l][HolderAt(l, p)] <= started[l][HolderAt(l, p)]
           /\ completed[l] = 1 => returned[l][HolderAt(l, p)] = 1

(* C25: a second signal() on a signaled fence changes nothing but, maybe,   *)
(* which worker is awake; the tasks run once all the same.                 *)
C25_SignalIdempotent == [][C25_Step]_vars /\ []C25_Counts

\* The user has just signaled again a fence the cursor had gone over, while a
\* task located after the fence runs and a worker it woke is about to look
\* at the queue.
C25_Witness ==
    /\ user = "signaled_again"
    /\ \E l \in Lists : \E f \in Positions(l) : \E j \in (f + 1)..Len(list_tasks[l]) :
          /\ IsFence(l, f) /\ IsTask(l, j)
          /\ m_signaled[l][HolderAt(l, f)]
          /\ m_current[l] > f
          /\ IsActive(l)
          /\ \E w \in Workers : pc[w] = "run" /\ task[w] = [list |-> l, holder |-> HolderAt(l, j)]

(***************************************************************************)
(* C26.  A task list is replayable.  Every push() of a list, the first and *)
(* the later ones, starts by leaving the cursor at the first entry, the    *)
(* checkpoint counters at their reset-values and the fences unsignaled,    *)
(* with nothing started or returned and a fresh completion promise; it     *)
(* then registers the list as one drain from the first entry leaves it;    *)
(* and in every submission every task is run once and the completion       *)
(* promise fulfilled once.                                                 *)
(***************************************************************************)
\* The list as build() made it, counters at their reset-values, drained once
\* from its first entry with the fences as they are.
FirstDrain(l) ==
    next(list_tasks[l], 1,
         [h \in Holders(l) |-> IF EntryOf(l, h).kind = "checkpoint"
                               THEN EntryOf(l, h).reset_value ELSE 0],
         m_signaled[l])

C26_Step ==
    \A l \in Lists :
        /\ Resets(l)
           => /\ m_current'[l] = 1
              /\ m_counter'[l] = [h \in Holders(l) |->
                                    IF EntryOf(l, h).kind = "checkpoint"
                                    THEN EntryOf(l, h).reset_value ELSE 0]
              /\ m_signaled'[l] = [h \in Holders(l) |-> FALSE]
              /\ started'[l] = [h \in Holders(l) |-> 0]
              /\ returned'[l] = [h \in Holders(l) |-> 0]
              /\ completed'[l] = 0
        /\ pushes'[l] # pushes[l]
           => /\ pushes'[l] = pushes[l] + 1
              /\ l \in callers.reset
              /\ m_current'[l] = FirstDrain(l).current
              /\ m_counter'[l] = FirstDrain(l).counter
              /\ m_signaled'[l] = m_signaled[l]
              /\ emitted'[l] = [h \in Holders(l) |->
                                   IF h \in Range(FirstDrain(l).output) THEN 1 ELSE 0]
              /\ started'[l] = [h \in Holders(l) |-> 0]
              /\ returned'[l] = [h \in Holders(l) |-> 0]
              /\ completed'[l] = IF FirstDrain(l).end /\ FirstDrain(l).output = <<>>
                                 THEN 1 ELSE 0

C26_EverySubmission ==
    \A l \in Lists :
        /\ completed[l] <= 1
        /\ (Submitted(l) /\ ~IsActive(l)) => completed[l] = 1
        /\ \A p \in Positions(l) :
              IsTask(l, p)
              => /\ returned[l][HolderAt(l, p)] <= 1
                 /\ (Submitted(l) /\ ~IsActive(l)) => returned[l][HolderAt(l, p)] = 1

(* C26: the second push() of a list resets it to the state of the first     *)
(* push() and the submission runs every task once and completes once.      *)
C26_Replayable == [][C26_Step]_vars /\ []C26_EverySubmission

\* In its second submission a list waits at a fence, unsignaled again, with a
\* task located before the fence run again.
C26_Witness ==
    \E l \in Lists : \E f \in Positions(l) : \E i \in 1..(f - 1) :
        /\ pushes[l] = 2 /\ IsActive(l)
        /\ IsFence(l, f) /\ IsTask(l, i)
        /\ m_current[l] = f
        /\ ~m_signaled[l][HolderAt(l, f)]
        /\ returned[l][HolderAt(l, i)] = 1

(***************************************************************************)
(* C27.  In the list a build() call returns, the reset-value of every      *)
(* checkpoint (plain, barrier or the terminal barrier) is 1 plus the       *)
(* number of tasks located between the start of its segment (the start of  *)
(* the list or the entry after the previous barrier) and the checkpoint;   *)
(* fences do not count.                                                    *)
(***************************************************************************)
Built == builder.last.output.m_tasks

BuiltBarrier(p) == Built[p].kind = "checkpoint" /\ Built[p].is_barrier

\* The first position of the segment of position p of the built list.
BuiltSegStart(p) == 1 + MaxOf({0} \cup {b \in 1..(p - 1) : BuiltBarrier(b)})

\* The barrier that closes the segment of position p.
BuiltSegEnd(p) == CHOOSE b \in p..Len(Built) : BuiltBarrier(b) /\ \A c \in p..(b - 1) : ~BuiltBarrier(c)

(* C27: in a built list the reset-value of every checkpoint is 1 plus the   *)
(* number of tasks of its segment located before it.                       *)
C27_ResetValues ==
    builder.last.call = "build"
    => \A p \in DOMAIN Built :
          Built[p].kind = "checkpoint"
          => Built[p].reset_value
                = 1 + Cardinality({i \in BuiltSegStart(p)..(p - 1) : Built[i].kind = "task"})

\* A list was built whose second segment, behind an explicit barrier, holds a
\* task and a plain checkpoint: the checkpoint and the terminal barrier both
\* have the reset-value 2.
C27_Witness ==
    /\ builder.last.call = "build"
    /\ Len(Built) = 4
    /\ BuiltBarrier(1)
    /\ Built[2].kind = "task"
    /\ Built[3].kind = "checkpoint" /\ ~Built[3].is_barrier /\ Built[3].reset_value = 2
    /\ Built[4].reset_value = 2

\* Counted as well: a fence before a checkpoint adds nothing to its reset-value.
FenceNotCounted ==
    /\ builder.last.call = "build"
    /\ Len(Built) = 4
    /\ Built[1].kind = "task" /\ Built[2].kind = "fence"
    /\ Built[3].kind = "checkpoint" /\ Built[3].reset_value = 2

(***************************************************************************)
(* C28.  The checkpoint range of a task is exactly the checkpoints located *)
(* after the task up to and including the first barrier that follows it.   *)
(* When its callable has returned, the task decrements these checkpoints   *)
(* once each, in the order of the list, and no other checkpoint.           *)
(***************************************************************************)
\* The barrier that closes the segment of position p.
SegEnd(l, p) ==
    CHOOSE b \in p..Len(list_tasks[l]) :
        IsBarrier(l, b) /\ \A c \in p..(b - 1) : ~IsBarrier(l, c)

\* The checkpoints a task at position p has to decrement.
CheckpointsAfter(l, p) ==
    {q \in (p + 1)..SegEnd(l, p) : list_tasks[l][q].kind = "checkpoint"}

RangeOf(l, p) ==
    {list_checkpoints[l][k] : k \in (list_tasks[l][p].lo + 1)..list_tasks[l][p].hi}

C28_Ranges ==
    \A l \in Lists : \A p \in Positions(l) :
        IsTask(l, p)
        => /\ RangeOf(l, p) = {HolderAt(l, q) : q \in CheckpointsAfter(l, p)}
           /\ list_tasks[l][p].hi - list_tasks[l][p].lo = Cardinality(CheckpointsAfter(l, p))

PositionOf(l, h) == CHOOSE p \in Positions(l) : HolderAt(l, p) = h

\* The steps of a worker between the return of a callable and the return of
\* trigger_checkpoints.
C28_Step ==
    \A w \in Workers :
        LET l == task[w].list
            p == PositionOf(l, task[w].holder)
        IN  /\ (pc[w] = "run" /\ pc'[w] = "trig") => trig'[w] = list_tasks[l][p].lo
            /\ (pc[w] = "trig" /\ trig'[w] = trig[w] + 1)
               => /\ list_checkpoints[l][trig'[w]] \in RangeOf(l, p)
                  /\ m_counter' = [m_counter EXCEPT
                                      ![l][list_checkpoints[l][trig'[w]]] = @ - 1]
            /\ (pc[w] = "trig" /\ pc'[w] = "idle") => trig[w] = list_tasks[l][p].hi
            /\ (pc[w] = "trig" /\ pc'[w] = "trig") => trig'[w] \in {trig[w], trig[w] + 1}

(* C28: a task's checkpoint range is the checkpoints between the task and   *)
(* the barrier closing its segment, each decremented once on completion.   *)
C28_CheckpointRange == []C28_Ranges /\ [][C28_Step]_vars

\* A task with a plain checkpoint before it and another one after it in its
\* segment has decremented its whole range: the checkpoint after it and the
\* barrier.
C28_Witness ==
    \E l \in Lists : \E w \in Workers : \E p \in Positions(l) :
        /\ pc[w] = "trig"
        /\ task[w] = [list |-> l, holder |-> HolderAt(l, p)]
        /\ p > 1 /\ IsPlain(l, p - 1) /\ IsPlain(l, p + 1)
        /\ trig[w] = list_tasks[l][p].hi
        /\ list_tasks[l][p].hi - list_tasks[l][p].lo = 2

(***************************************************************************)
(* C29.  The list a build() call returns holds every entry the builder had *)
(* recorded (tasks, checkpoints, barriers, fences), each once and in the   *)
(* order of the calls, followed by one terminal barrier, its last entry;   *)
(* and the call leaves the builder's entry vector empty.                   *)
(***************************************************************************)
\* What identifies an entry: its alternative, its holder, what it was added as.
Identity(e) ==
    [kind |-> e.kind, is_barrier |-> e.is_barrier, holder |-> e.holder, returns |-> e.returns]

(* C29: build() returns the recorded entries in order, followed by one     *)
(* terminal barrier, and leaves the builder empty.                         *)
C29_BuildKeepsEntries ==
    builder.last.call = "build"
    => /\ Len(Built) = Len(builder.last.before) + 1
       /\ \A i \in DOMAIN builder.last.before :
             Identity(Built[i]) = Identity(builder.last.before[i])
       /\ Identity(Built[Len(Built)])
             = [kind |-> "checkpoint", is_barrier |-> TRUE, holder |-> Len(Built),
                returns |-> FALSE]
       /\ builder.m_tasks = <<>>

\* The second build() of a builder returned a list of four entries of which
\* the first is a barrier, another a fence and another a task.
C29_Witness ==
    /\ builder.last.call = "build"
    /\ builder.builds = 2
    /\ Len(Built) = 4
    /\ BuiltBarrier(1)
    /\ \E i, j \in 2..3 : Built[i].kind = "fence" /\ Built[j].kind = "task"

(***************************************************************************)
(* C30.  For every barrier of a pushed list: the counter is at least 1 as  *)
(* long as the cursor has not passed the barrier; the cursor passes it     *)
(* only from a state where the counter is 1 and leaves it at 0; and the    *)
(* promise of the barrier is fulfilled by the scheduler's decrement, never *)
(* by a task's.                                                            *)
(***************************************************************************)
C30_Counter ==
    \A l \in Lists : \A b \in Positions(l) :
        (Submitted(l) /\ IsBarrier(l, b))
        => /\ m_current[l] <= b => m_counter[l][HolderAt(l, b)] >= 1
           /\ m_current[l] > b => m_counter[l][HolderAt(l, b)] = 0
           /\ fulfilled[l][HolderAt(l, b)]
                 = IF m_current[l] > b THEN <<"scheduler">> ELSE <<>>

\* The steps in which the cursor goes over a barrier (in a worker's drain, or
\* in push(), where the counter has just been loaded with the reset-value), and
\* the steps of a task that count a barrier down (reset() apart, which loads
\* the counter).
C30_Step ==
    \A l \in Lists : \A b \in Positions(l) :
        IsBarrier(l, b)
        => /\ (pushes'[l] = pushes[l] /\ m_current[l] <= b /\ m_current'[l] > b)
              => /\ m_counter[l][HolderAt(l, b)] = 1
                 /\ m_counter'[l][HolderAt(l, b)] = 0
           /\ (pushes'[l] # pushes[l] /\ m_current'[l] > b)
              => /\ list_tasks[l][b].reset_value = 1
                 /\ m_counter'[l][HolderAt(l, b)] = 0
           /\ (~Resets(l) /\ pushes'[l] = pushes[l] /\ m_current'[l] = m_current[l]
                 /\ m_counter'[l][HolderAt(l, b)] # m_counter[l][HolderAt(l, b)])
              => /\ m_counter'[l][HolderAt(l, b)] = m_counter[l][HolderAt(l, b)] - 1
                 /\ m_counter'[l][HolderAt(l, b)] >= 1
                 /\ fulfilled'[l][HolderAt(l, b)] = <<>>

(* C30: a barrier's counter stays >= 1 until the cursor passes it, which    *)
(* happens at 1 and leaves 0; only the scheduler fulfils its promise.      *)
C30_BarrierCounter == []C30_Counter /\ [][C30_Step]_vars

\* Two tasks have counted an explicit barrier down from 3 to 1 and the cursor
\* has not passed it yet.
C30_Witness ==
    \E l \in Lists : \E b \in Positions(l) :
        /\ IsBarrier(l, b) /\ b < Len(list_tasks[l])
        /\ list_tasks[l][b].reset_value = 3
        /\ m_counter[l][HolderAt(l, b)] = 1
        /\ m_current[l] = b
        /\ fulfilled[l][HolderAt(l, b)] = <<>>

(***************************************************************************)
(* C31.  A plain checkpoint never gates the list: the cursor never rests   *)
(* at a plain checkpoint, the tasks located after a plain checkpoint in    *)
(* its segment are emitted by the drain that emits the tasks before it,    *)
(* and they may start before those tasks have completed.                   *)
(***************************************************************************)
\* The entry at position p is put in the ready queue by this step (push()
\* starts the records of a submission afresh).
EmittedNow(l, p) ==
    IF pushes'[l] # pushes[l] THEN emitted'[l][HolderAt(l, p)] > 0
    ELSE emitted'[l][HolderAt(l, p)] > emitted[l][HolderAt(l, p)]

\* Two tasks of one segment with a plain checkpoint between them.
AroundPlain(l, i, c, j) ==
    /\ i < c /\ c < j
    /\ IsTask(l, i) /\ IsPlain(l, c) /\ IsTask(l, j)
    /\ SegStart(l, i) = SegStart(l, j)

C31_NoStop ==
    \A l \in Lists : \A p \in Positions(l) :
        (Submitted(l) /\ IsPlain(l, p)) => m_current[l] # p

C31_SameDrain ==
    \A l \in Lists : \A i, c, j \in Positions(l) :
        AroundPlain(l, i, c, j) => (EmittedNow(l, i) <=> EmittedNow(l, j))

(* C31 as stated: the cursor never stops at a plain checkpoint, and the    *)
(* tasks after it in its segment are emitted in the drain of those before. *)
C31_PlainNeverGates == []C31_NoStop /\ [][C31_SameDrain]_vars

\* The same when no fence lies between the two tasks: a fence of the segment
\* stops the drain, on whichever side of the checkpoint it lies.
C31_SameDrainNoFence ==
    \A l \in Lists : \A c \in Positions(l) :
        IsPlain(l, c)
        => \A i \in 1..(c - 1) : \A j \in (c + 1)..Len(list_tasks[l]) :
              (AroundPlain(l, i, c, j) /\ \A f \in i..j : ~IsFence(l, f))
              => (EmittedNow(l, i) <=> EmittedNow(l, j))

(* C31 amended: the cursor never stops at a plain checkpoint, and two      *)
(* tasks of a segment around a plain checkpoint, with no fence between     *)
(* them, are emitted by the same drain.                                    *)
C31_PlainGatesNothing == []C31_NoStop /\ [][C31_SameDrainNoFence]_vars

\* The task after a plain checkpoint runs while the task before it has not
\* returned from its callable.
C31_Witness ==
    \E l \in Lists : \E i, c, j \in Positions(l) :
        /\ AroundPlain(l, i, c, j)
        /\ returned[l][HolderAt(l, i)] = 0
        /\ \E w \in Workers :
              pc[w] = "run" /\ task[w] = [list |-> l, holder |-> HolderAt(l, j)]

(***************************************************************************)
(* C32.  A value-returning task of a list fulfils its result promise       *)
(* before it decrements any checkpoint of its range: while the worker is   *)
(* in trigger_checkpoints the result is there, and whenever a checkpoint   *)
(* or barrier that follows the task in its segment, or the completion      *)
(* future of the list, is ready, the result of the task is ready.          *)
(***************************************************************************)
Returns(l, p) == IsTask(l, p) /\ list_tasks[l][p].returns

C32_BeforeTrigger ==
    \A w \in Workers :
        (pc[w] = "trig" /\ EntryOf(task[w].list, task[w].holder).returns)
        => result_slot(task[w].list, task[w].holder) = "value"

C32_ReadyBehind ==
    \A l \in Lists : \A p \in Positions(l) :
        Returns(l, p)
        => /\ \A q \in CheckpointsAfter(l, p) :
                 fulfilled[l][HolderAt(l, q)] # <<>>
                 => result_slot(l, HolderAt(l, p)) = "value"
           /\ completed[l] > 0 => result_slot(l, HolderAt(l, p)) = "value"

(* C32: the result of a value-returning task is ready before the task      *)
(* decrements a checkpoint, hence before anything behind it is ready.      *)
C32_ResultFirst == C32_BeforeTrigger /\ C32_ReadyBehind

\* The callable of a value-returning task has returned and set_value has not
\* been called yet: no checkpoint of its range has been decremented by it.
C32_ValueNotYetSet ==
    \E w \in Workers :
        /\ pc[w] = "result" /\ returned[task[w].list][task[w].holder] = 1
        /\ result_slot(task[w].list, task[w].holder) = "empty"

\* A worker is between two decrements of a value-returning task whose range
\* holds a plain checkpoint, already fulfilled, and the barrier.
C32_Witness ==
    \E l \in Lists : \E p \in Positions(l) : \E q \in CheckpointsAfter(l, p) : \E w \in Workers :
        /\ Returns(l, p) /\ IsPlain(l, q)
        /\ pc[w] = "trig" /\ task[w] = [list |-> l, holder |-> HolderAt(l, p)]
        /\ fulfilled[l][HolderAt(l, q)] = <<"task">>
        /\ result_slot(l, HolderAt(l, p)) = "value"

(***************************************************************************)
(* C33.  push() resets the list before it registers it.  As stated: right  *)
(* after push() the cursor is at the first entry, every checkpoint counter *)
(* equals its reset-value and every fence is unsignaled, and a signal()    *)
(* issued before the push is cleared: the submission does not pass that    *)
(* fence.                                                                  *)
(***************************************************************************)
\* The counters and the fence booleans reset() writes.
ResetValues(l) ==
    [h \in Holders(l) |->
        IF EntryOf(l, h).kind = "checkpoint" THEN EntryOf(l, h).reset_value ELSE 0]

Unsignaled(l) == [h \in Holders(l) |-> FALSE]

Pushed(l) == pushes'[l] # pushes[l]

\* push() passes no fence, whatever was signaled before.
C33_NoFencePassed ==
    \A l \in Lists : \A f \in Positions(l) :
        (Pushed(l) /\ IsFence(l, f)) => m_current'[l] <= f

C33_AfterPush ==
    \A l \in Lists :
        Pushed(l) => /\ m_current'[l] = 1
                     /\ m_counter'[l] = ResetValues(l)
                     /\ m_signaled'[l] = Unsignaled(l)

(* C33 as stated: after push() the list is in its reset state, and no      *)
(* fence signaled before the push is passed.                               *)
C33_ResetState == [][C33_AfterPush /\ C33_NoFencePassed]_vars

\* The reset() of push() leaves the reset state, whatever was signaled before;
\* push() then drains the list it registers: the list is where next() leaves
\* it when called on the reset state, with the fences signaled since the reset.
C33_DrainedFromReset ==
    \A l \in Lists :
        /\ Resets(l)
           => /\ m_current'[l] = 1
              /\ m_counter'[l] = ResetValues(l)
              /\ m_signaled'[l] = Unsignaled(l)
        /\ Pushed(l)
           => /\ m_signaled'[l] = m_signaled[l]
              /\ \E r \in {next(list_tasks[l], 1, ResetValues(l), m_signaled[l])} :
                    /\ m_current'[l] = r.current
                    /\ m_counter'[l] = r.counter

\* push() passes no fence but those signaled since its reset().
C33_ClearedFenceStops ==
    \A l \in Lists : \A f \in Positions(l) :
        (Pushed(l) /\ IsFence(l, f) /\ ~m_signaled[l][HolderAt(l, f)]) => m_current'[l] <= f

(* C33 amended: the drain of push() starts from the reset state (cursor at *)
(* the first entry, counters at their reset-values, fences unsignaled but  *)
(* for those signaled inside push()), and no fence signaled before the     *)
(* push is passed.                                                         *)
C33_ResetThenDrain == [][C33_DrainedFromReset /\ C33_ClearedFenceStops]_vars

\* A fence was signaled while the list was out of the pool; the list has been
\* pushed since, and its cursor rests at that fence, unsignaled.
C33_Witness ==
    \E l \in Lists : \E f \in Positions(l) :
        /\ user = "signaled_before"
        /\ FenceHolders(l) = {HolderAt(l, f)}
        /\ IsActive(l)
        /\ m_current[l] = f
        /\ ~m_signaled[l][HolderAt(l, f)]
        /\ \E p \in 1..(f - 1) : IsTask(l, p)

(***************************************************************************)
(* C34.  Independent lists do not block each other.  A drain (the worker's *)
(* predicate on an empty queue, or push()) advances every registered list  *)
(* as far as that list alone allows, whatever the other lists are stopped  *)
(* at (its items are emitted, and are in the queue or with a worker unless *)
(* the queue had its end before its begin); and a list without fence that  *)
(* was pushed is completed, whether the other list ever moves or not, in   *)
(* every run in which the process goes on.                                 *)
(***************************************************************************)
\* The step is a drain by worker w, or a push.
WorkerDrains(w) ==
    /\ pc[w] = "idle" /\ pc'[w] # "idle"
    /\ m_tasks = <<>> /\ m_task_lists # <<>>

Drains == (\E w \in Workers : WorkerDrains(w)) \/ (\E l \in Lists : Pushed(l))

\* What next() returns for list l on its own, from the state the drain finds.
OwnNext(l) ==
    next(list_tasks[l], m_current[l], m_counter[l], m_signaled[l])

\* List l is stopped at an unsignaled fence or at an unsatisfied barrier.
Stopped(l) ==
    /\ IsActive(l)
    /\ m_current[l] <= Len(list_tasks[l])
    /\ \/ IsFence(l, m_current[l]) /\ ~m_signaled[l][HolderAt(l, m_current[l])]
       \/ IsBarrier(l, m_current[l]) /\ m_counter[l][HolderAt(l, m_current[l])] # 1

C34_Step ==
    Drains =>
        \A l \in Lists :
            (IsActive(l) \/ Pushed(l))
            => \E r \in {OwnNext(l)} :
                  /\ m_current'[l] = r.current
                  /\ m_counter'[l] = r.counter
                  /\ \A h \in Range(r.output) :
                        /\ emitted'[l][h] = 1
                        /\ ~behind_begin(m_tasks)
                           => [list |-> l, holder |-> h]
                                  \in Range(m_tasks') \cup {task'[w] : w \in Workers}
                  /\ (r.end /\ r.output = <<>>) => (~IsActive(l)' /\ completed'[l] = 1)

HasFence(l) == \E p \in Positions(l) : IsFence(l, p)

C34_ProgressUnlessEnded ==
    \A l \in ListIds : (Submitted(l) /\ ~HasFence(l)) ~> (completed[l] = 1 \/ terminated)

Woken == user \in {"wait_idle_woken", "wait_idle_returned"}

(* C35: a thread blocked in wait_idle while the queue and the registry are *)
(* empty is eventually woken, in every run in which the process goes on.   *)
C35_WaitIdleLiveness == (user = "wait_idle" /\ idle_predicate) ~> (Woken \/ terminated)

\* With two workers or more the waiting thread is woken.
C35_TwoWorkers ==
    (thread_count >= 2 /\ user = "wait_idle" /\ idle_predicate) ~> (Woken \/ terminated)

\* With lists that hold no fence (nobody calls signal) the waiting thread is
\* woken, whatever the number of workers.
C35_NoFence ==
    (user = "wait_idle" /\ idle_predicate /\ \A l \in ListIds : ~HasFence(l))
        ~> (Woken \/ terminated)

\* The state the pool stays in: both lists retired, the last one inside push(),
\* the only worker blocked, and the thread in wait_idle still blocked.
C35_Stuck ==
    /\ user = "wait_idle" /\ idle_predicate
    /\ \A l \in Lists : completed[l] = 1
    /\ \A w \in Workers : pc[w] = "wait"

(***************************************************************************)
(* C36.  next() never returns at_end together with a non-zero count: the   *)
(* drain in which the cursor reaches the end of a list has emitted no task *)
(* in that call, so it retires the list, and no registered list is left    *)
(* with its cursor at the end.                                             *)
(***************************************************************************)
AtEnd(l) == m_current[l] = Len(list_tasks[l]) + 1

C36_EndEmitsNothing ==
    Drains =>
        \A l \in Lists :
            (IsActive(l) \/ Pushed(l))
            => \E r \in {OwnNext(l)} :
                  /\ r.end => r.output = <<>>
                  /\ AtEnd(l)' => (r.end /\ ~IsActive(l)' /\ completed'[l] = 1)

C36_NeverLeftAtEnd == \A l \in Lists : IsActive(l) => ~AtEnd(l)

(* C36: a drain that reaches the end of a list emitted nothing in that     *)
(* call and retires the list; a registered list is never at its end.       *)
C36_EndMeansRetired == []C36_NeverLeftAtEnd /\ [][C36_EndEmitsNothing]_vars

\* A list with tasks in two segments has been retired: its last drain passed
\* the terminal barrier and emitted nothing.
C36_Witness ==
    \E l \in Lists : \E p, b, q \in Positions(l) :
        /\ p < b /\ b < q
        /\ IsTask(l, p) /\ IsBarrier(l, b) /\ IsTask(l, q)
        /\ returned[l][HolderAt(l, q)] = 1
        /\ AtEnd(l) /\ ~IsActive(l) /\ completed[l] = 1

(***************************************************************************)
(* C37.  When a list has been retired (its completion future is ready and  *)
(* the list is back with the user), no worker is inside execute() of a     *)
(* task holder of that list: the worker of the last decrement has returned *)
(* from the holder before.                                                 *)
(***************************************************************************)
Retired(l) == Submitted(l) /\ ~IsActive(l) /\ completed[l] = 1

Inside(w, l) == task[w].list = l /\ pc[w] \in {"run", "trig"}

(* C37: no worker is inside execute() of a holder of a retired list.       *)
C37_NoWorkerInside ==
    \A l \in Lists : Retired(l) => \A w \in Workers : ~Inside(w, l)

\* What the code gives: a worker still inside a holder of a retired list has
\* made all its decrements, and only has to return.
C37_OnlyReturnLeft ==
    \A l \in Lists : \A w \in Workers :
        (Retired(l) /\ Inside(w, l))
        => /\ pc[w] = "trig"
           /\ trig[w] = EntryOf(l, task[w].holder).hi

(***************************************************************************)
(* C38.  A worker never exits while the ready queue is non-empty, and      *)
(* every one-shot task appended by execute() or invoke() has been executed *)
(* when the destructor returns, a task appended by a callable that was     *)
(* still running when the destructor saw the pool idle included.           *)
(***************************************************************************)
C38_NoExitWithWork == \A w \in Workers : pc[w] = "exit" => m_tasks = <<>>

C38_ExecutedAtReturn == user = "destroyed" => m_tasks = <<>>

(* C38: no worker exits and the destructor does not return while a task is *)
(* in the ready queue.                                                     *)
C38_QueueDrainedAtExit == C38_NoExitWithWork /\ C38_ExecutedAtReturn

\* What the code gives: the queue is empty at the time the destructor stops
\* the pool, and nothing is appended while no callable runs.
C38_IdleWhenStopped ==
    [][(m_running /\ ~m_running') => (m_tasks = <<>> /\ m_task_lists = <<>>)]_vars

\* The destructor has returned and the task a callable appended is still in
\* the ready queue.
C38_Abandoned ==
    /\ user = "destroyed"
    /\ m_tasks # <<>>
    /\ \A w \in Workers : pc[w] = "exit"

(***************************************************************************)
(* C39.  During a submission every checkpoint counter lies between 0 and   *)
(* its reset-value (no decrement below 0, no wrap-around), and when the    *)
(* list is retired every checkpoint counter is 0: a checkpoint receives    *)
(* as many decrements as its reset-value, one per task of its range and    *)
(* one by the scheduler.                                                   *)
(***************************************************************************)
IsCheckpoint(l, p) == list_tasks[l][p].kind = "checkpoint"

C39_InRange ==
    \A l \in Lists : \A p \in Positions(l) :
        (Submitted(l) /\ IsCheckpoint(l, p))
        => /\ m_counter[l][HolderAt(l, p)] >= 0
           /\ m_counter[l][HolderAt(l, p)] <= list_tasks[l][p].reset_value

C39_ZeroAtRetirement ==
    \A l \in Lists : \A p \in Positions(l) :
        (Retired(l) /\ IsCheckpoint(l, p)) => m_counter[l][HolderAt(l, p)] = 0

\* Every step takes at most one from a counter, but for the reset() of push().
C39_OneByOne ==
    \A l \in Lists : \A p \in Positions(l) :
        (IsCheckpoint(l, p) /\ ~Resets(l))
        => m_counter'[l][HolderAt(l, p)] \in
              {m_counter[l][HolderAt(l, p)], m_counter[l][HolderAt(l, p)] - 1}

(* C39: a checkpoint counter stays between 0 and its reset-value, goes     *)
(* down one by one, and is 0 when the list is retired.                     *)
C39_CounterBalance == [](C39_InRange /\ C39_ZeroAtRetirement) /\ [][C39_OneByOne]_vars

\* A list is retired whose plain checkpoint was counted down by two tasks and
\* by the scheduler.
C39_Witness ==
    \E l \in Lists : \E p \in Positions(l) :
        /\ Retired(l)
        /\ IsPlain(l, p) /\ list_tasks[l][p].reset_value = 3
        /\ m_counter[l][HolderAt(l, p)] = 0
        /\ \A w \in Workers : pc[w] \notin {"run", "trig"}

(***************************************************************************)
(* C40.  In the sharded regime the coordinates recovered from the linear   *)
(* index i are ix = i mod x, iy = (i / x) mod y and iz = i / (x * y), the  *)
(* product x * y taken without wrap-around, so that 0 <= iz < z for all    *)
(* extents x, y, z >= 1 of 32 bits, those whose product x * y does not fit *)
(* 32 bits included.                                                       *)
(***************************************************************************)
Sharded ==
    /\ dispatch.state \in {"built", "trapped"}
    /\ \A k \in DOMAIN dispatch.m_tasks : dispatch.m_tasks[k].kind = "range"

\* The divisor the closures captured is x * y.
ZFactorExact ==
    \A k \in DOMAIN dispatch.m_tasks :
        dispatch.m_tasks[k].z_factor \o <<0, 0, 0, 0>> = z_factor_wide(dispatch.x, dispatch.y)

\* The k-th invocation is the one of the linear index k - 1 (the shards follow
\* one another and run in order), for the extents the model's integers hold.
SmallGrid == dispatch.x <= MaxGrid /\ dispatch.y <= MaxGrid

LinearCoordinates ==
    (SmallGrid /\ ~dispatch.cut)
    => \A k \in DOMAIN dispatch.log :
          dispatch.log[k] = <<(k - 1) % dispatch.x,
                              ((k - 1) \div dispatch.x) % dispatch.y,
                              (k - 1) \div (dispatch.x * dispatch.y)>>

ZInGrid == \A k \in DOMAIN dispatch.log : dispatch.log[k][3] \in 0..(dispatch.z - 1)

(* C40: the tasks of the sharded regime divide by the exact product x * y  *)
(* and invoke func with iz in [0, z), whatever the extents.                *)
C40_ShardCoordinates ==
    Sharded => (dispatch.state # "trapped" /\ ZFactorExact /\ LinearCoordinates /\ ZInGrid)

\* The part of C40 that holds: the dispatches whose x * y fits 32 bits.
ShardCoordinatesIn32Bits ==
    (Sharded /\ z_factor_wide(dispatch.x, dispatch.y)
                    = z_factor(dispatch.x, dispatch.y) \o <<0, 0, 0, 0>>)
    => (dispatch.state # "trapped" /\ ZFactorExact /\ LinearCoordinates /\ ZInGrid)

\* A shard whose x * y does not fit 32 bits has run an iteration: the division
\* by the wrapped product gave 0 where the index asks for more, or trapped.
C40_Wrapped ==
    /\ Sharded
    /\ ~ZFactorExact
    /\ dispatch.state = "trapped" \/ dispatch.log # <<>>

====
